---- MODULE Spec2Model ----
(***************************************************************************)
(* A model of the sharded concurrent map of src/concurrent_map.go:         *)
(* ConcurrentHashMap = a fixed array of shards, each a Go map guarded by   *)
(* its own sync.RWMutex; keys are routed to a shard by fnv32(key) mod the  *)
(* shard count.                                                            *)
(***************************************************************************)
EXTENDS Integers, Sequences, FiniteSets, TLC

(***************************************************************************)
(* Bounds of the model.                                                    *)
(***************************************************************************)
NThreads == 2      \* caller goroutines
MaxCalls == 3      \* table operations called in one behaviour

Threads == 1..NThreads

(***************************************************************************)
(* Keys are Go strings, modelled as their byte sequences.                  *)
(***************************************************************************)
KA == <<65>>
KB == <<66>>
KC == <<67>>
Keys == {KA, KB, KC}

(***************************************************************************)
(* Values are Go interface{} values: the nil interface, a comparable       *)
(* scalar, or a slice (whose dynamic type is not comparable).              *)
(***************************************************************************)
Nil == [t |-> "nil", d |-> <<>>]
IntV(n) == [t |-> "int", d |-> <<n>>]
SliceV(s) == [t |-> "slice", d |-> s]

(***************************************************************************)
(* fnv32, on two 16-bit limbs <<hi, lo>> so that the products stay small:  *)
(* 16777619 = 2^24 + 403, hence h * 16777619 mod 2^32 =                    *)
(* ((h mod 2^8) * 2^24 + h * 403) mod 2^32.                                *)
(***************************************************************************)
Limb == 65536
OffsetHi == 33052      \* 2166136261 = 0x811C9DC5 = 33052 * 2^16 + 40389
OffsetLo == 40389
PrimeLo == 403         \* 16777619 = 0x01000193 = 256 * 2^16 + 403
PrimeHi == 256

RECURSIVE BitXor(_, _)
BitXor(a, b) ==
    IF a = 0 THEN b
    ELSE IF b = 0 THEN a
    ELSE ((a + b) % 2) + 2 * BitXor(a \div 2, b \div 2)

\* hash *= prime32 (uint32 wraparound)
MulPrime(h) ==
    LET lo == h[2] * PrimeLo
        hi == h[1] * PrimeLo + (lo \div Limb) + (h[2] % PrimeHi) * PrimeHi
    IN  <<hi % Limb, lo % Limb>>

\* hash ^= uint32(key[i])
XorByte(h, b) == <<h[1], BitXor(h[2], b)>>

\* a hash that XORs the byte in before it multiplies
fnv32stepXorFirst(h, b) == MulPrime(XorByte(h, b))

fnv32step(h, b) == XorByte(MulPrime(h), b)

RECURSIVE fnv32from(_, _, _)
fnv32from(h, key, i) ==
    IF i > Len(key) THEN h ELSE fnv32from(fnv32step(h, key[i]), key, i + 1)

fnv32(key) == fnv32from(<<OffsetHi, OffsetLo>>, key, 1)

\* uint(h) % uint(n)
ModLimbs(h, n) == ((h[1] % n) * (Limb % n) + (h[2] % n)) % n

(***************************************************************************)
(* The table: m.Shards and m.HashMap (shards are indexed from 0).          *)
(***************************************************************************)
ShardCount == 2
ShardIds == 0..(ShardCount - 1)

\* a routing by the length of the key
GetShardByLen(key) == Len(key) % ShardCount

GetShard(key) == ModLimbs(fnv32(key), ShardCount)

ShardOf == [k \in Keys |-> GetShard(k)]

VARIABLES
    items,      \* items[s]: the Go map of shard s, a function from its keys
    rw,         \* rw[s]: the RWMutex of shard s
    pc,         \* pc[t]: where caller t is in its operation
    op,         \* op[t]: the operation t is in, with its arguments
    idx,        \* idx[t]: loop index / current shard of t's operation
    acc,        \* acc[t]: accumulator of t's operation (Count's count)
    todo,       \* todo[t]: pairs MSet has still to apply
    ret,        \* the return this step made, if it made one: who returned what
    calls,      \* number of operations called so far
    expect,     \* expect[k]: what the completed calls say about key k
    pre,        \* pre[t]: expect[key] as t's operation found it when called
    tally,      \* tally[k]: the returns counted since k was last known
    scan,       \* the full-table scan that was started, and whether its
                \* channel has been handed to the caller
    prod,       \* prod[s]: the goroutine a scan started for shard s
    chans,      \* chans[s]: snapshot's channel of shard s
    wk,         \* wk[s]: fanIn's goroutine that forwards chans[s]
    fan,        \* fanIn itself, which closes out
    out,        \* the channel Iter/IterBuffered return
    cons,       \* what the scan delivered: to the reader of out, or to fn
    snap,       \* what the iterator held when its channel was returned
    keys,       \* keys[t]: the slice t's Keys() has built so far
    pure        \* the call of a function outside the callers' operations:
                \* its arguments, where it is, and its result

iterVars == <<scan, prod, chans, wk, fan, out, cons, snap>>

moreVars == <<keys, pure>>

vars == <<items, rw, pc, op, idx, acc, todo, ret, calls, expect, pre, tally,
          iterVars, moreVars>>

(***************************************************************************)
(* Go map operations on one shard's items.                                 *)
(***************************************************************************)
EmptyMap == [x \in {} |-> Nil]

\* m[k] = v
MapPut(m, k, v) == [x \in (DOMAIN m) \cup {k} |-> IF x = k THEN v ELSE m[x]]

\* delete(m, k)
MapDel(m, k) == [x \in (DOMAIN m) \ {k} |-> m[x]]

\* v, ok := m[k]
MapGet(m, k) == IF k \in DOMAIN m THEN <<m[k], TRUE>> ELSE <<Nil, FALSE>>

\* len(m)
MapLen(m) == Cardinality(DOMAIN m)

(***************************************************************************)
(* sync.RWMutex of a shard: w is the writers' mutex (held by a writer that *)
(* waits for the readers to leave or is inside), r the number of readers   *)
(* inside. A writer that holds w keeps new readers out.                    *)
(***************************************************************************)
Unlocked == [w |-> FALSE, r |-> 0]

\* a Lock() that does not wait for the readers to leave
CanEnterAmongReaders(m) == TRUE

CanLock(m) == ~m.w                  \* Lock(): take the writers' mutex
CanEnter(m) == m.r = 0              \* Lock(): the readers have left
\* an RLock() that does not wait for a writer
CanRLockAmongWriters(m) == TRUE

CanRLock(m) == ~m.w                 \* RLock(): no writer pending or inside
\* a Lock() that does not take the writers' mutex
DoLockShared(m) == m

DoLock(m) == [m EXCEPT !.w = TRUE]
DoUnlock(m) == [m EXCEPT !.w = FALSE]
DoRLock(m) == [m EXCEPT !.r = @ + 1]
DoRUnlock(m) == [m EXCEPT !.r = @ - 1]

(***************************************************************************)
(* Operations and their results.                                           *)
(***************************************************************************)
NoOp == [name |-> "none", key |-> <<>>, val |-> Nil, old |-> Nil,
         cb |-> "none", data |-> EmptyMap]

Call1(n, k) == [NoOp EXCEPT !.name = n, !.key = k]
Call2(n, k, v) == [NoOp EXCEPT !.name = n, !.key = k, !.val = v]

\* a return: the call (name, key and arguments in o), the results val and ok,
\* and cbn, the number of times the call invoked its callback
Result(o, v, b) ==
    [name |-> o.name, key |-> o.key, o |-> o, val |-> v, ok |-> b, cbn |-> 0]

Invoked(r) == [r EXCEPT !.cbn = @ + 1]

NoRet == Result(NoOp, Nil, FALSE)

\* operations that store into or delete from a shard
Mutators == {"Set", "MSet", "Remove", "Pop", "SetIfAbsent", "SetIfPresent",
             "Upsert", "Update", "UpdateCb", "AddIfPresent"}

(***************************************************************************)
(* History variables. expect[k] is what the calls completed so far say     *)
(* about key k (absent, present with a value, or unknown when calls on k   *)
(* overlapped); pre[t] is that knowledge as t's call found it, with dist   *)
(* set when a mutating call on the same key overlapped t's call.           *)
(***************************************************************************)
Known(s, v) == [st |-> s, v |-> v]
Unknown == Known("unknown", Nil)
Absent == Known("absent", Nil)
Present(v) == Known("present", v)

NoPre == [st |-> "unknown", v |-> Nil, dist |-> FALSE, seen |-> <<>>,
          open |-> FALSE, had |-> {}]

Touched(o) ==
    IF o.name = "MSet" THEN DOMAIN o.data
    ELSE IF o.name \in Mutators THEN {o.key}
    ELSE {}

Watched(o) ==
    IF o.name = "MSet" THEN DOMAIN o.data
    ELSE IF o.name \in {"Count", "Iter", "IterBuffered", "IterBufferedLike", "IterCb",
                        "IterConcurrentCb", "Items", "Keys"}
         THEN Keys
    ELSE {o.key}

InFlight(t) == pc[t] # "idle"

Busy(t, W) == \E u \in Threads \ {t} : InFlight(u) /\ Touched(op[u]) \cap W # {}

ExpectedCount == Cardinality({k \in Keys : expect[k].st = "present"})

PreOf(t, o) ==
    IF o.name = "MSet"
    THEN [NoPre EXCEPT !.dist = Busy(t, Watched(o)), !.open = scan.open]
    ELSE IF Watched(o) = Keys
         THEN [st |-> IF \A k \in Keys : expect[k].st # "unknown"
                      THEN "present" ELSE "unknown",
               v |-> IntV(ExpectedCount),
               dist |-> Busy(t, Keys),
               seen |-> <<>>,
               open |-> scan.open,
               had |-> {}]
    ELSE [st |-> expect[o.key].st, v |-> expect[o.key].v,
          dist |-> Busy(t, {o.key}),
          seen |-> tally[o.key].bag,
          open |-> scan.open,
          had |-> {}]

\* the combine of the claim: the appending callback of TestUpsert
Combined(exists, cur, new) ==
    SliceV((IF exists THEN cur.d ELSE <<>>) \o <<new.d[1]>>)

\* what an undisturbed call o that found p and returned r leaves under k
PostOf(o, p, r, k) ==
    CASE o.name = "Set" -> Present(o.val)
      [] o.name = "MSet" -> Present(o.data[k])
      [] o.name \in {"Remove", "Pop"} -> Absent
      [] o.name \in {"SetIfAbsent", "SetIfPresent", "Update"} ->
            IF r.ok THEN Present(o.val) ELSE Known(p.st, p.v)
      [] o.name = "Upsert" -> Present(r.val)
      [] o.name = "AddIfPresent" ->
            IF p.st = "absent" THEN Present(o.val)
            ELSE IF p.st = "present" THEN Present(Combined(TRUE, p.v, o.val))
            ELSE Unknown
      [] o.name = "UpdateCb" ->
            IF ~r.ok THEN Known(p.st, p.v)
            ELSE IF p.st = "present" THEN Present(Combined(TRUE, p.v, o.val))
            ELSE Unknown
      [] OTHER -> IF r.ok THEN Unknown ELSE Known(p.st, p.v)

NewExpect(t, r, k) ==
    IF k \in Touched(op[t])
    THEN IF pre[t].dist THEN Unknown ELSE PostOf(op[t], pre[t], r, k)
    ELSE expect[k]

(***************************************************************************)
(* tally[k] counts returns in a window of calls on k. A window opens when  *)
(* k is known: kind "absent" counts the SetIfAbsent calls made since k was *)
(* known absent, kind "present" the Pop calls made since k was known to    *)
(* hold w. Calling any other mutating operation on k closes the window. m  *)
(* is the number of counted calls that returned, n the number of them that *)
(* returned true, v the value of the one that did.                         *)
(***************************************************************************)
Window(kind, w) ==
    [kind |-> kind, w |-> w, by |-> "none", n |-> 0, m |-> 0, v |-> Nil,
     called |-> <<>>, bag |-> <<>>]
Closed == Window("closed", Nil)

\* the calls a window counts, all of the operation called first in it:
\* SetIfAbsent or Upsert on a key known absent; Pop, Upsert or a
\* SetIfPresent that expects w and writes another value on a key known to
\* hold w
Counted(w, o) ==
    /\ w.by \in {"none", o.name}
    /\ CASE w.kind = "absent" -> o.name \in {"SetIfAbsent", "Upsert"}
         [] w.kind = "present" ->
               \/ o.name \in {"Pop", "Upsert"}
               \/ o.name = "SetIfPresent" /\ o.old = w.w /\ o.val # w.w
         [] OTHER -> FALSE

\* a bag of numbers, kept as a sorted sequence
RECURSIVE BagAdd(_, _)
BagAdd(b, x) ==
    IF b = <<>> \/ x <= Head(b) THEN <<x>> \o b ELSE <<Head(b)>> \o BagAdd(Tail(b), x)

\* the number a value stands for in a bag (0 for what is no scalar)
Num(v) == IF v.t = "int" THEN v.d[1] ELSE 0

TallyCall(o, k) ==
    IF k \notin Touched(o) THEN tally[k]
    ELSE IF Counted(tally[k], o)
    THEN [tally[k] EXCEPT !.by = o.name,
                          !.called = IF o.name = "Upsert" THEN BagAdd(@, Num(o.val)) ELSE @]
    ELSE Closed

TallyReturn(t, r, k) ==
    LET w == tally[k]
        e == NewExpect(t, r, k)
    IN  IF k \notin Touched(op[t]) THEN w
        ELSE IF w.kind # "closed"
        THEN [w EXCEPT !.m = @ + 1,
                       !.n = IF r.ok THEN @ + 1 ELSE @,
                       !.v = IF ~r.ok THEN @
                             ELSE IF w.by = "Pop" THEN r.val ELSE op[t].val,
                       !.bag = IF w.by = "Upsert" THEN BagAdd(@, Num(op[t].val)) ELSE @]
        ELSE IF e.st # "unknown" /\ ~Busy(t, {k}) THEN Window(e.st, e.v)
        ELSE w

\* the number of entries in the table
Entries == Cardinality({<<s, k>> \in ShardIds \X Keys : k \in DOMAIN items[s]})

\* pre[u].had of a Count that is running: the numbers of entries the table
\* had since the call, up to the last store or delete; t is about to store
\* or delete
Had(u, t) ==
    IF op[u].name = "Count" /\ pc[u] # "idle" /\ op[t].name \in Mutators
    THEN [pre[u] EXCEPT !.had = @ \cup {Entries}]
    ELSE pre[u]

GhostCall(t, o) ==
    /\ pre' = [u \in Threads |->
              IF u = t THEN PreOf(t, o)
              ELSE IF InFlight(u) /\ Touched(o) \cap Watched(op[u]) # {}
                   THEN [pre[u] EXCEPT !.dist = TRUE]
                   ELSE pre[u]]
    /\ tally' = [k \in Keys |-> TallyCall(o, k)]

GhostReturn(t, r) ==
    /\ expect' = [k \in Keys |-> NewExpect(t, r, k)]
    /\ tally' = [k \in Keys |-> TallyReturn(t, r, k)]

\* ret in a step in which no call returns
Quiet == [t |-> 0, r |-> NoRet, pre |-> NoPre]

(***************************************************************************)
(* Channels of Tuple. A send completes when the buffer has room; a channel *)
(* of capacity 0 has none, its sends complete only by handing the tuple to *)
(* a receiver. A receive takes the oldest buffered tuple; a range over a   *)
(* channel ends when it is closed and its buffer is empty.                 *)
(***************************************************************************)
Tuple(k, v) == [Key |-> k, Val |-> v]

NoTuple == Tuple(<<>>, Nil)

\* a channel variable before make
NilChan == [made |-> FALSE, cap |-> 0, buf |-> <<>>, closed |-> FALSE]

\* make(chan Tuple, n)
MakeChan(n) == [made |-> TRUE, cap |-> n, buf |-> <<>>, closed |-> FALSE]

CanSend(c) == c.made /\ ~c.closed /\ Len(c.buf) < c.cap
ChanSend(c, x) == [c EXCEPT !.buf = Append(@, x)]
CanRecv(c) == c.made /\ c.buf # <<>>
ChanRecv(c) == [c EXCEPT !.buf = Tail(@)]
\* a range that ends as soon as the channel is closed
AtEndOnClose(c) == c.made /\ c.closed

AtEnd(c) == c.made /\ c.closed /\ c.buf = <<>>
ChanClose(c) == [c EXCEPT !.closed = TRUE]

(***************************************************************************)
(* The state of a full-table scan: Iter, IterBuffered, Items, IterCb or    *)
(* IterConcurrentCb. A behaviour runs one scan.                            *)
(***************************************************************************)
NoScan == [mode |-> "none", open |-> FALSE]
NoProd == [pc |-> "none", left |-> {}]
NoWorker == [pc |-> "none", t |-> NoTuple]
NoCons == [got |-> {}, n |-> 0, closed |-> FALSE]
NoPure == [fn |-> "none"]
NoSnap == [taken |-> FALSE, set |-> {}, known |-> FALSE, want |-> {}]

(***************************************************************************)
(* Init: the table New(ShardCount) returns, and callers that have not      *)
(* called anything yet.                                                    *)
(***************************************************************************)
New == [s \in ShardIds |-> EmptyMap]

Init ==
    /\ items = New
    /\ rw = [s \in ShardIds |-> Unlocked]
    /\ pc = [t \in Threads |-> "idle"]
    /\ op = [t \in Threads |-> NoOp]
    /\ idx = [t \in Threads |-> 0]
    /\ acc = [t \in Threads |-> 0]
    /\ todo = [t \in Threads |-> EmptyMap]
    /\ ret = Quiet
    /\ calls = 0
    /\ expect = [k \in Keys |-> Absent]
    /\ pre = [t \in Threads |-> NoPre]
    /\ tally = [k \in Keys |-> Window("absent", Nil)]
    /\ scan = NoScan
    /\ prod = [s \in ShardIds |-> NoProd]
    /\ chans = [s \in ShardIds |-> NilChan]
    /\ wk = [s \in ShardIds |-> NoWorker]
    /\ fan = "none"
    /\ out = NilChan
    /\ cons = NoCons
    /\ snap = NoSnap
    /\ keys = [t \in Threads |-> <<>>]
    /\ pure = NoPure

(***************************************************************************)
(* Calling an operation and returning from it.                             *)
(***************************************************************************)
\* t calls o, whose first lock is on shard s and is taken in mode p
Enter0(t, o, s, p) ==
    /\ pc[t] = "idle"
    /\ calls < MaxCalls
    /\ calls' = calls + 1
    /\ op' = [op EXCEPT ![t] = o]
    /\ idx' = [idx EXCEPT ![t] = s]
    /\ pc' = [pc EXCEPT ![t] = p]
    /\ GhostCall(t, o)
    /\ ret' = Quiet
    /\ UNCHANGED <<items, rw, expect>>

Enter(t, o, s, p) == Enter0(t, o, s, p) /\ UNCHANGED <<iterVars, moreVars>>

Return0(t, r) ==
    /\ pc' = [pc EXCEPT ![t] = "idle"]
    /\ ret' = [t |-> t, r |-> r, pre |-> pre[t]]
    /\ op' = [op EXCEPT ![t] = NoOp]
    /\ pre' = [u \in Threads |-> IF u = t THEN NoPre ELSE Had(u, t)]
    /\ idx' = [idx EXCEPT ![t] = 0]
    /\ acc' = [acc EXCEPT ![t] = 0]
    /\ todo' = [todo EXCEPT ![t] = EmptyMap]
    /\ GhostReturn(t, r)
    /\ UNCHANGED calls

Return(t, r) == Return0(t, r) /\ UNCHANGED <<iterVars, moreVars>>

(***************************************************************************)
(* shard.Lock() and shard.RLock() as called by a caller goroutine.         *)
(***************************************************************************)
Lock(t) ==
    /\ pc[t] = "lock"
    /\ CanLock(rw[idx[t]])
    /\ rw' = [rw EXCEPT ![idx[t]] = DoLock(@)]
    /\ pc' = [pc EXCEPT ![t] = "drain"]
    /\ ret' = Quiet
    /\ UNCHANGED <<items, op, idx, acc, todo, calls, expect, pre, tally, iterVars, moreVars>>

LockEnter(t) ==
    /\ pc[t] = "drain"
    /\ CanEnter(rw[idx[t]])
    /\ pc' = [pc EXCEPT ![t] = "cs"]
    /\ ret' = Quiet
    /\ UNCHANGED <<items, rw, op, idx, acc, todo, calls, expect, pre, tally,
                 iterVars, moreVars>>

RLock(t) ==
    /\ pc[t] = "rlock"
    /\ CanRLock(rw[idx[t]])
    /\ rw' = [rw EXCEPT ![idx[t]] = DoRLock(@)]
    /\ pc' = [pc EXCEPT ![t] = "rcs"]
    /\ ret' = Quiet
    /\ UNCHANGED <<items, op, idx, acc, todo, calls, expect, pre, tally, iterVars, moreVars>>

\* the body of a single-key operation that holds the write lock: the shard's
\* map becomes m, the lock is released and r is returned
WriteBody(t, m, r) ==
    /\ items' = [items EXCEPT ![idx[t]] = m]
    /\ rw' = [rw EXCEPT ![idx[t]] = DoUnlock(@)]
    /\ Return(t, r)

\* the body of a single-key operation that holds the read lock
ReadBody(t, r) ==
    /\ rw' = [rw EXCEPT ![idx[t]] = DoRUnlock(@)]
    /\ Return(t, r)
    /\ UNCHANGED items

InCs(t, n) == pc[t] = "cs" /\ op[t].name = n
InRcs(t, n) == pc[t] = "rcs" /\ op[t].name = n

Shard(t) == items[idx[t]]

(***************************************************************************)
(* Set, Get, Has, Remove, Pop. A call draws its key from K and its value   *)
(* from V.                                                                 *)
(***************************************************************************)
Start(t, o, p) == Enter(t, o, GetShard(o.key), p) /\ UNCHANGED <<acc, todo>>

CallSet(t, K, V) ==
    \E k \in K, v \in V : Start(t, Call2("Set", k, v), "lock")

\* a Set that keeps the value a key already has
SetKeepsOld(m, k, v) == IF k \in DOMAIN m THEN m ELSE MapPut(m, k, v)

SetStore(m, k, v) == MapPut(m, k, v)

Set(t) ==
    /\ InCs(t, "Set")
    /\ WriteBody(t, SetStore(Shard(t), op[t].key, op[t].val), Result(op[t], Nil, TRUE))

CallGet(t, K) ==
    \E k \in K : Start(t, Call1("Get", k), "rlock")

GetLookup(m, k) == MapGet(m, k)

Get(t) ==
    /\ InRcs(t, "Get")
    /\ LET g == GetLookup(Shard(t), op[t].key)
       IN  ReadBody(t, Result(op[t], g[1], g[2]))

CallHas(t, K) ==
    \E k \in K : Start(t, Call1("Has", k), "rlock")

Has(t) ==
    /\ InRcs(t, "Has")
    /\ ReadBody(t, Result(op[t], Nil, MapGet(Shard(t), op[t].key)[2]))

CallRemove(t, K) ==
    \E k \in K : Start(t, Call1("Remove", k), "lock")

RemoveDelete(m, k) == MapDel(m, k)

Remove(t) ==
    /\ InCs(t, "Remove")
    /\ WriteBody(t, RemoveDelete(Shard(t), op[t].key), Result(op[t], Nil, TRUE))

CallPop(t, K) ==
    \E k \in K : Start(t, Call1("Pop", k), "lock")

\* a Pop that reads the value and leaves it in the map
PopKeeps(m, k) == m

PopDelete(m, k) == MapDel(m, k)

Pop(t) ==
    /\ InCs(t, "Pop")
    /\ LET g == MapGet(Shard(t), op[t].key)
       IN  WriteBody(t, PopDelete(Shard(t), op[t].key), Result(op[t], g[1], g[2]))

(***************************************************************************)
(* SetIfAbsent.                                                            *)
(***************************************************************************)
CallSetIfAbsent(t, K, V) ==
    \E k \in K, v \in V : Start(t, Call2("SetIfAbsent", k, v), "lock")

\* a SetIfAbsent that stores whatever it found
SetIfAbsentAlways(m, k, v, ok) == MapPut(m, k, v)

\* if !ok { shard.items[key] = value }
SetIfAbsentStore(m, k, v, ok) == IF ~ok THEN MapPut(m, k, v) ELSE m

SetIfAbsent(t) ==
    /\ InCs(t, "SetIfAbsent")
    /\ LET ok == MapGet(Shard(t), op[t].key)[2]
       IN  WriteBody(t, SetIfAbsentStore(Shard(t), op[t].key, op[t].val, ok),
                     Result(op[t], Nil, ~ok))

(***************************************************************************)
(* A panic inside an operation: the call never returns and, as no Unlock   *)
(* is deferred, the lock it holds stays held.                              *)
(***************************************************************************)
Panic(t) ==
    /\ pc' = [pc EXCEPT ![t] = "panicked"]
    /\ ret' = Quiet
    /\ UNCHANGED <<items, rw, op, idx, acc, todo, calls, expect, pre, tally,
                 iterVars, moreVars>>

(***************************************************************************)
(* SetIfPresent. val == oldValue compares two interface{} values: equal    *)
(* when both are nil or have the same type and value, a run-time panic     *)
(* when both hold the same non-comparable type (a slice).                  *)
(***************************************************************************)
GoEq(a, b) ==
    IF a.t # b.t THEN "false"
    ELSE IF a.t = "slice" THEN "panic"
    ELSE IF a.d = b.d THEN "true" ELSE "false"

CallSetIfPresent(t, K, V, O) ==
    \E k \in K, v \in V, o \in O :
        Start(t, [Call2("SetIfPresent", k, v) EXCEPT !.old = o], "lock")

\* ok = ok && (val == oldValue)
SetIfPresentOk(g, old) == IF g[2] THEN GoEq(g[1], old) ELSE "false"

SetIfPresent(t) ==
    /\ InCs(t, "SetIfPresent")
    /\ LET ok == SetIfPresentOk(MapGet(Shard(t), op[t].key), op[t].old)
       IN  IF ok = "panic" THEN Panic(t)
           ELSE WriteBody(t, IF ok = "true"
                             THEN MapPut(Shard(t), op[t].key, op[t].val)
                             ELSE Shard(t),
                          Result(op[t], Nil, ok = "true"))

(***************************************************************************)
(* AddIfPresent. tmp := val.([]interface{}) panics when the stored value   *)
(* is no slice; the slice with value appended is stored otherwise. On an   *)
(* absent key value itself is stored. The result is ok of the lookup.      *)
(***************************************************************************)
CallAddIfPresent(t, K, V) ==
    \E k \in K, v \in V : Start(t, Call2("AddIfPresent", k, v), "lock")

\* val.([]interface{})
IsSlice(val) == val.t = "slice"

\* an AddIfPresent that starts a slice on an absent key
AddIfPresentWraps(m, k, value, g) ==
    IF g[2] THEN MapPut(m, k, SliceV(Append(g[1].d, value.d[1])))
    ELSE MapPut(m, k, SliceV(<<value.d[1]>>))

\* shard.items[key] = append(tmp, value), or shard.items[key] = value
AddIfPresentStore(m, k, value, g) ==
    IF g[2] THEN MapPut(m, k, SliceV(Append(g[1].d, value.d[1])))
    ELSE MapPut(m, k, value)

AddIfPresent(t) ==
    /\ InCs(t, "AddIfPresent")
    /\ LET g == MapGet(Shard(t), op[t].key)
       IN  IF g[2] /\ ~IsSlice(g[1]) THEN Panic(t)
           ELSE WriteBody(t, AddIfPresentStore(Shard(t), op[t].key, op[t].val, g),
                          Result(op[t], Nil, g[2]))

(***************************************************************************)
(* Upsert, with the callback of TestUpsert: a scalar newValue is appended  *)
(* to the slice stored under the key, or starts a new slice when the key   *)
(* is absent; the type assertions panic on any other value.                *)
(***************************************************************************)
CbResult(v) == [panic |-> FALSE, v |-> v]
CbPanic == [panic |-> TRUE, v |-> Nil]

AppendCb(exists, valueInMap, newValue) ==
    IF newValue.t # "int" THEN CbPanic
    ELSE IF ~exists THEN CbResult(SliceV(<<newValue.d[1]>>))
    ELSE IF valueInMap.t # "slice" THEN CbPanic
    ELSE CbResult(SliceV(Append(valueInMap.d, newValue.d[1])))

CallCb(cb, exists, valueInMap, newValue) ==
    CASE cb = "append" -> AppendCb(exists, valueInMap, newValue)

CallUpsert(t, K, V) ==
    \E k \in K, v \in V :
        Start(t, [Call2("Upsert", k, v) EXCEPT !.cb = "append"], "lock")

\* an Upsert that stores the new value in place of the callback's result
UpsertStoresNew(m, k, res, value) == MapPut(m, k, value)

\* shard.items[key] = res
UpsertStore(m, k, res, value) == MapPut(m, k, res)

Upsert(t) ==
    /\ InCs(t, "Upsert")
    /\ op[t].cb = "append"
    /\ LET g == MapGet(Shard(t), op[t].key)
           res == CallCb(op[t].cb, g[2], g[1], op[t].val)
       IN  IF res.panic THEN Panic(t)
           ELSE WriteBody(t, UpsertStore(Shard(t), op[t].key, res.v, op[t].val),
                          Invoked(Result(op[t], res.v, TRUE)))

(***************************************************************************)
(* Update and UpdateCb.                                                    *)
(***************************************************************************)
CallUpdate(t, K, V) ==
    \E k \in K, v \in V : Start(t, Call2("Update", k, v), "lock")

\* an Update that stores whether or not the key is there
UpdateAlways(m, k, v, ok) == MapPut(m, k, v)

\* if ok { shard.items[key] = value }
UpdateStore(m, k, v, ok) == IF ok THEN MapPut(m, k, v) ELSE m

Update(t) ==
    /\ InCs(t, "Update")
    /\ LET ok == MapGet(Shard(t), op[t].key)[2]
       IN  WriteBody(t, UpdateStore(Shard(t), op[t].key, op[t].val, ok),
                     Result(op[t], Nil, ok))

CallUpdateCb(t, K, V) ==
    \E k \in K, v \in V :
        Start(t, [Call2("UpdateCb", k, v) EXCEPT !.cb = "append"], "lock")

UpdateCb(t) ==
    /\ InCs(t, "UpdateCb")
    /\ op[t].cb = "append"
    /\ LET g == MapGet(Shard(t), op[t].key)
           res == CallCb(op[t].cb, g[2], g[1], op[t].val)
       IN  IF ~g[2] THEN WriteBody(t, Shard(t), Result(op[t], Nil, FALSE))
           ELSE IF res.panic THEN Panic(t)
           ELSE WriteBody(t, MapPut(Shard(t), op[t].key, res.v),
                          Invoked(Result(op[t], Nil, TRUE)))

(***************************************************************************)
(* Count: the shards one after another, each under its read lock.          *)
(***************************************************************************)
CallCount(t) ==
    /\ Enter(t, Call1("Count", <<>>), 0, "rlock")
    /\ acc' = [acc EXCEPT ![t] = 0]
    /\ UNCHANGED todo

\* a Count that counts the shards that hold something
CountShards(c, m) == c + (IF MapLen(m) > 0 THEN 1 ELSE 0)

\* count += len(shard.items)
CountAdd(c, m) == c + MapLen(m)

Count(t) ==
    /\ InRcs(t, "Count")
    /\ rw' = [rw EXCEPT ![idx[t]] = DoRUnlock(@)]
    /\ IF idx[t] + 1 < ShardCount
       THEN /\ acc' = [acc EXCEPT ![t] = CountAdd(@, Shard(t))]
            /\ idx' = [idx EXCEPT ![t] = @ + 1]
            /\ pc' = [pc EXCEPT ![t] = "rlock"]
            /\ ret' = Quiet
            /\ UNCHANGED <<op, todo, calls, expect, pre, tally, iterVars, moreVars>>
       ELSE Return(t, Result(op[t], IntV(CountAdd(acc[t], Shard(t))), TRUE))
    /\ UNCHANGED items

(***************************************************************************)
(* MSet: one Lock/Unlock per pair, the pairs in the map's iteration order  *)
(* (any order). op.key and op.val hold the loop variables key and value.   *)
(***************************************************************************)
\* an MSet that applies one pair of the map only
CallMSetOnePair(t, D) ==
    \E d \in D, k \in Keys :
        /\ k \in DOMAIN d
        /\ Enter(t, [NoOp EXCEPT !.name = "MSet", !.key = k, !.val = d[k], !.data = d],
                 GetShard(k), "lock")
        /\ todo' = [todo EXCEPT ![t] = EmptyMap]
        /\ UNCHANGED acc

CallMSet(t, D) ==
    \E d \in D, k \in Keys :
        /\ k \in DOMAIN d
        /\ Enter(t, [NoOp EXCEPT !.name = "MSet", !.key = k, !.val = d[k], !.data = d],
                 GetShard(k), "lock")
        /\ todo' = [todo EXCEPT ![t] = MapDel(d, k)]
        /\ UNCHANGED acc

MSet(t) ==
    /\ InCs(t, "MSet")
    /\ items' = [items EXCEPT ![idx[t]] = MapPut(@, op[t].key, op[t].val)]
    /\ rw' = [rw EXCEPT ![idx[t]] = DoUnlock(@)]
    /\ IF todo[t] = EmptyMap
       THEN Return(t, Result(op[t], Nil, TRUE))
       ELSE \E k \in DOMAIN todo[t] :
            /\ op' = [op EXCEPT ![t].key = k, ![t].val = todo[t][k]]
            /\ todo' = [todo EXCEPT ![t] = MapDel(@, k)]
            /\ idx' = [idx EXCEPT ![t] = GetShard(k)]
            /\ pc' = [pc EXCEPT ![t] = "lock"]
            /\ pre' = [u \in Threads |-> IF u = t THEN pre[t] ELSE Had(u, t)]
            /\ ret' = Quiet
            /\ UNCHANGED <<acc, calls, expect, tally, iterVars, moreVars>>

(***************************************************************************)
(* snapshot: one goroutine per shard. It takes the shard's read lock,      *)
(* makes the shard's channel with room for every entry the shard holds,    *)
(* reports to the WaitGroup, sends the entries in the map's iteration      *)
(* order (any order), releases the lock and closes the channel.            *)
(***************************************************************************)
callerVars == <<pc, op, idx, acc, todo, calls, expect, pre, tally>>

Snapshots == {"Iter", "IterBuffered", "Items"}

\* a snapshot whose channels have no buffer
snapshotUnbuffered(m) == 0

\* len(shard.items), the capacity of the shard's channel
snapshotCap(m) == MapLen(m)

\* t calls n, which calls snapshot(m): the goroutines are started
CallSnapshot(t, n) ==
    /\ scan.mode = "none"
    /\ Enter0(t, Call1(n, <<>>), 0, "snapshot")
    /\ scan' = [mode |-> n, open |-> FALSE]
    /\ prod' = [s \in ShardIds |-> [pc |-> "rlock", left |-> {}]]
    /\ UNCHANGED <<acc, todo, chans, wk, fan, out, cons, snap, moreVars>>

snapshotRLock(s) ==
    /\ scan.mode \in Snapshots
    /\ prod[s].pc = "rlock"
    /\ CanRLock(rw[s])
    /\ rw' = [rw EXCEPT ![s] = DoRLock(@)]
    /\ chans' = [chans EXCEPT ![s] = MakeChan(snapshotCap(items[s]))]
    /\ prod' = [prod EXCEPT ![s] = [pc |-> "range", left |-> DOMAIN items[s]]]
    /\ ret' = Quiet
    /\ UNCHANGED <<items, callerVars, scan, wk, fan, out, cons, snap, moreVars>>

snapshotSend(s) ==
    /\ scan.mode \in Snapshots
    /\ prod[s].pc = "range"
    /\ CanSend(chans[s])
    /\ \E k \in prod[s].left \cap DOMAIN items[s] :
        /\ chans' = [chans EXCEPT ![s] = ChanSend(@, Tuple(k, items[s][k]))]
        /\ prod' = [prod EXCEPT ![s].left = @ \ {k}]
    /\ ret' = Quiet
    /\ UNCHANGED <<items, rw, callerVars, scan, wk, fan, out, cons, snap, moreVars>>

snapshotRUnlock(s) ==
    /\ scan.mode \in Snapshots
    /\ prod[s].pc = "range"
    /\ prod[s].left = {}
    /\ rw' = [rw EXCEPT ![s] = DoRUnlock(@)]
    /\ prod' = [prod EXCEPT ![s].pc = "close"]
    /\ ret' = Quiet
    /\ UNCHANGED <<items, callerVars, scan, chans, wk, fan, out, cons, snap, moreVars>>

snapshotClose(s) ==
    /\ prod[s].pc = "close"
    /\ chans' = [chans EXCEPT ![s] = ChanClose(@)]
    /\ prod' = [prod EXCEPT ![s].pc = "done"]
    /\ ret' = Quiet
    /\ UNCHANGED <<items, rw, callerVars, scan, wk, fan, out, cons, snap, moreVars>>

snapshot(s) ==
    snapshotRLock(s) \/ snapshotSend(s) \/ snapshotRUnlock(s) \/ snapshotClose(s)

\* wg.Wait() of snapshot: every goroutine has made its channel
snapshotDone == \A s \in ShardIds : prod[s].pc \in {"range", "close", "done"}

(***************************************************************************)
(* fanIn: one goroutine per channel forwards its tuples to out; fanIn      *)
(* closes out when all of them have finished.                              *)
(***************************************************************************)
RECURSIVE SumCap(_)
SumCap(S) ==
    IF S = {} THEN 0
    ELSE LET s == CHOOSE x \in S : TRUE IN chans[s].cap + SumCap(S \ {s})

\* an IterBuffered whose channel has room for one tuple less
IterBufferedShort == SumCap(ShardIds) - 1

\* total: the sum of cap(c) over chans
IterBufferedCap == SumCap(ShardIds)

\* an Iter whose channel has room for the whole snapshot
IterRoomy == SumCap(ShardIds)

\* make(chan Tuple): no buffer
IterCap == 0

\* ch := make(chan Tuple, n); go fanIn(chans, ch)
GoFanIn(n) ==
    /\ out' = MakeChan(n)
    /\ fan' = "wait"
    /\ wk' = [s \in ShardIds |-> [pc |-> "recv", t |-> NoTuple]]

fanInRecv(s) ==
    /\ wk[s].pc = "recv"
    /\ CanRecv(chans[s])
    /\ wk' = [wk EXCEPT ![s] = [pc |-> "send", t |-> Head(chans[s].buf)]]
    /\ chans' = [chans EXCEPT ![s] = ChanRecv(@)]
    /\ ret' = Quiet
    /\ UNCHANGED <<items, rw, callerVars, scan, prod, fan, out, cons, snap, moreVars>>

\* out <- t on a buffered out
fanInSend(s) ==
    /\ wk[s].pc = "send"
    /\ CanSend(out)
    /\ out' = ChanSend(out, wk[s].t)
    /\ wk' = [wk EXCEPT ![s] = [pc |-> "recv", t |-> NoTuple]]
    /\ ret' = Quiet
    /\ UNCHANGED <<items, rw, callerVars, scan, prod, chans, fan, cons, snap, moreVars>>

\* the range over ch ends: wg.Done()
fanInDone(s) ==
    /\ wk[s].pc = "recv"
    /\ AtEnd(chans[s])
    /\ wk' = [wk EXCEPT ![s].pc = "done"]
    /\ ret' = Quiet
    /\ UNCHANGED <<items, rw, callerVars, scan, prod, chans, fan, out, cons, snap, moreVars>>

\* wg.Wait(); close(out)
fanInClose ==
    /\ fan = "wait"
    /\ \A s \in ShardIds : wk[s].pc = "done"
    /\ out' = ChanClose(out)
    /\ fan' = "done"
    /\ ret' = Quiet
    /\ UNCHANGED <<items, rw, callerVars, scan, prod, chans, wk, cons, snap, moreVars>>

fanIn == fanInClose \/ \E s \in ShardIds : fanInRecv(s) \/ fanInSend(s) \/ fanInDone(s)

(***************************************************************************)
(* History of a scan. Held is every tuple the iterator holds or has        *)
(* delivered: the entries its goroutines have still to copy under their    *)
(* read locks, the tuples in its channels and in its goroutines' hands,    *)
(* and the tuples delivered. snap records Held when the channel is handed  *)
(* to the caller, and the table the completed calls describe if the call   *)
(* overlapped no mutating call.                                            *)
(***************************************************************************)
Range(q) == {q[i] : i \in 1..Len(q)}

Uncopied(s) ==
    IF prod[s].pc = "range"
    THEN {Tuple(k, items[s][k]) : k \in prod[s].left \cap DOMAIN items[s]}
    ELSE {}

Held ==
    cons.got \cup Range(out.buf)
    \cup UNION {Range(chans[s].buf) \cup Uncopied(s) : s \in ShardIds}
    \cup {wk[s].t : s \in {x \in ShardIds : wk[x].pc = "send"}}

ExpectedTuples ==
    {Tuple(k, expect[k].v) : k \in {x \in Keys : expect[x].st = "present"}}

Undisturbed(p) == p.st = "present" /\ ~p.dist

SnapOf(p) ==
    [taken |-> TRUE, set |-> Held, known |-> Undisturbed(p),
     want |-> IF Undisturbed(p) THEN ExpectedTuples ELSE {}]

Deliver(c, x) == [c EXCEPT !.got = @ \cup {x}, !.n = @ + 1]

(***************************************************************************)
(* Iter and IterBuffered: snapshot, make the channel, start fanIn, return  *)
(* the channel.                                                            *)
(***************************************************************************)
CallIter(t) == CallSnapshot(t, "Iter")

CallIterBuffered(t) == CallSnapshot(t, "IterBuffered")

IterLike(t, n, c) ==
    /\ pc[t] = "snapshot" /\ op[t].name = n
    /\ snapshotDone
    /\ GoFanIn(c)
    /\ scan' = [scan EXCEPT !.open = TRUE]
    /\ snap' = SnapOf(pre[t])
    /\ Return0(t, Result(op[t], Nil, TRUE))
    /\ UNCHANGED <<items, rw, prod, chans, cons, moreVars>>

Iter(t) == IterLike(t, "Iter", IterCap)

IterBuffered(t) == IterLike(t, "IterBuffered", IterBufferedCap)

(***************************************************************************)
(* The reader of the returned channel: receives a tuple when one is        *)
(* offered, or finds the channel closed. It may stop receiving at any      *)
(* time.                                                                   *)
(***************************************************************************)
\* a buffered tuple
ReceiveBuffered ==
    /\ CanRecv(out)
    /\ cons' = Deliver(cons, Head(out.buf))
    /\ out' = ChanRecv(out)
    /\ UNCHANGED wk

\* the tuple a fanIn goroutine is sending on an out without buffer
ReceiveHandoff ==
    /\ out.made /\ out.cap = 0
    /\ \E s \in ShardIds :
        /\ wk[s].pc = "send"
        /\ cons' = Deliver(cons, wk[s].t)
        /\ wk' = [wk EXCEPT ![s] = [pc |-> "recv", t |-> NoTuple]]
    /\ UNCHANGED out

\* the range over the channel ends
ReceiveEnd ==
    /\ AtEnd(out)
    /\ ~cons.closed
    /\ cons' = [cons EXCEPT !.closed = TRUE]
    /\ UNCHANGED <<out, wk>>

Receive ==
    /\ scan.open
    /\ ReceiveBuffered \/ ReceiveHandoff \/ ReceiveEnd
    /\ ret' = Quiet
    /\ UNCHANGED <<items, rw, callerVars, scan, prod, chans, fan, snap, moreVars>>

(***************************************************************************)
(* Items: the caller drains IterBuffered() into tmp (todo[t]) and returns  *)
(* it (in the data field of the result's operation).                       *)
(***************************************************************************)
CallItems(t) == CallSnapshot(t, "Items")

ItemsIterBuffered(t) ==
    /\ pc[t] = "snapshot" /\ op[t].name = "Items"
    /\ snapshotDone
    /\ GoFanIn(IterBufferedCap)
    /\ pc' = [pc EXCEPT ![t] = "range"]
    /\ snap' = SnapOf(pre[t])
    /\ ret' = Quiet
    /\ UNCHANGED <<items, rw, op, idx, acc, todo, calls, expect, pre, tally,
                   scan, prod, chans, cons, moreVars>>

ItemsRange(t) ==
    /\ pc[t] = "range" /\ op[t].name = "Items"
    /\ \/ /\ CanRecv(out)
          /\ todo' = [todo EXCEPT ![t] = MapPut(@, Head(out.buf).Key, Head(out.buf).Val)]
          /\ cons' = Deliver(cons, Head(out.buf))
          /\ out' = ChanRecv(out)
          /\ ret' = Quiet
          /\ UNCHANGED <<pc, op, idx, acc, calls, expect, pre, tally>>
       \/ /\ AtEnd(out)
          /\ cons' = [cons EXCEPT !.closed = TRUE]
          /\ Return0(t, [Result(op[t], Nil, TRUE) EXCEPT !.o.data = todo[t]])
          /\ UNCHANGED out
    /\ UNCHANGED <<items, rw, scan, prod, chans, wk, fan, snap, moreVars>>

Items(t) == ItemsIterBuffered(t) \/ ItemsRange(t)

(***************************************************************************)
(* IterCb: the shards one after another, fn called for every entry of a    *)
(* shard under its read lock. cons records the calls of fn.                *)
(***************************************************************************)
ShardTuples(m) == {Tuple(k, m[k]) : k \in DOMAIN m}

\* fn(key, value) for every entry of m
RangeFn(c, m) == [c EXCEPT !.got = @ \cup ShardTuples(m), !.n = @ + MapLen(m)]

CallIterCb(t) ==
    /\ scan.mode = "none"
    /\ Enter0(t, Call1("IterCb", <<>>), 0, "rlock")
    /\ scan' = [mode |-> "IterCb", open |-> FALSE]
    /\ UNCHANGED <<acc, todo, prod, chans, wk, fan, out, cons, snap, moreVars>>

IterCb(t) ==
    /\ InRcs(t, "IterCb")
    /\ cons' = RangeFn(cons, Shard(t))
    /\ rw' = [rw EXCEPT ![idx[t]] = DoRUnlock(@)]
    /\ IF idx[t] + 1 < ShardCount
       THEN /\ idx' = [idx EXCEPT ![t] = @ + 1]
            /\ pc' = [pc EXCEPT ![t] = "rlock"]
            /\ ret' = Quiet
            /\ UNCHANGED <<op, acc, todo, calls, expect, pre, tally>>
       ELSE Return0(t, Result(op[t], Nil, TRUE))
    /\ UNCHANGED <<items, scan, prod, chans, wk, fan, out, snap, moreVars>>

(***************************************************************************)
(* IterConcurrentCb: one goroutine per shard calls fn for every entry of   *)
(* its shard under the read lock; the caller waits for all of them.        *)
(***************************************************************************)
CallIterConcurrentCb(t) ==
    /\ scan.mode = "none"
    /\ Enter0(t, Call1("IterConcurrentCb", <<>>), 0, "wait")
    /\ scan' = [mode |-> "IterConcurrentCb", open |-> FALSE]
    /\ prod' = [s \in ShardIds |-> [pc |-> "rlock", left |-> {}]]
    /\ UNCHANGED <<acc, todo, chans, wk, fan, out, cons, snap, moreVars>>

IterConcurrentCbRLock(s) ==
    /\ scan.mode = "IterConcurrentCb"
    /\ prod[s].pc = "rlock"
    /\ CanRLock(rw[s])
    /\ rw' = [rw EXCEPT ![s] = DoRLock(@)]
    /\ prod' = [prod EXCEPT ![s].pc = "range"]
    /\ ret' = Quiet
    /\ UNCHANGED <<items, callerVars, scan, chans, wk, fan, out, cons, snap, moreVars>>

IterConcurrentCbRange(s) ==
    /\ scan.mode = "IterConcurrentCb"
    /\ prod[s].pc = "range"
    /\ cons' = RangeFn(cons, items[s])
    /\ rw' = [rw EXCEPT ![s] = DoRUnlock(@)]
    /\ prod' = [prod EXCEPT ![s].pc = "done"]
    /\ ret' = Quiet
    /\ UNCHANGED <<items, callerVars, scan, chans, wk, fan, out, snap, moreVars>>

IterConcurrentCb(t) ==
    /\ pc[t] = "wait" /\ op[t].name = "IterConcurrentCb"
    /\ \A s \in ShardIds : prod[s].pc = "done"
    /\ Return0(t, Result(op[t], Nil, TRUE))
    /\ UNCHANGED <<items, rw, iterVars, moreVars>>

(***************************************************************************)
(* IterBufferedLike and snapshotlike: as IterBuffered and snapshot, but a  *)
(* shard's goroutine sends only the entries whose key contains like        *)
(* (op.key). The channel is still made with room for every entry of the    *)
(* shard.                                                                  *)
(***************************************************************************)
\* strings.Contains(key, like)
Contains(key, like) ==
    \E i \in 1..(Len(key) + 1) :
        /\ i + Len(like) - 1 <= Len(key)
        /\ SubSeq(key, i, i + Len(like) - 1) = like

CallIterBufferedLike(t, L) ==
    \E like \in L :
        /\ scan.mode = "none"
        /\ Enter0(t, Call1("IterBufferedLike", like), 0, "snapshot")
        /\ scan' = [mode |-> "IterBufferedLike", open |-> FALSE]
        /\ prod' = [s \in ShardIds |-> [pc |-> "rlock", left |-> {}, like |-> like]]
        /\ UNCHANGED <<acc, todo, chans, wk, fan, out, cons, snap, moreVars>>

snapshotlikeRLock(s) ==
    /\ scan.mode = "IterBufferedLike"
    /\ prod[s].pc = "rlock"
    /\ CanRLock(rw[s])
    /\ rw' = [rw EXCEPT ![s] = DoRLock(@)]
    /\ chans' = [chans EXCEPT ![s] = MakeChan(snapshotCap(items[s]))]
    /\ prod' = [prod EXCEPT ![s].pc = "range",
                            ![s].left = {k \in DOMAIN items[s] : Contains(k, prod[s].like)}]
    /\ ret' = Quiet
    /\ UNCHANGED <<items, callerVars, scan, wk, fan, out, cons, snap, moreVars>>

snapshotlikeSend(s) ==
    /\ scan.mode = "IterBufferedLike"
    /\ prod[s].pc = "range"
    /\ CanSend(chans[s])
    /\ \E k \in prod[s].left \cap DOMAIN items[s] :
        /\ chans' = [chans EXCEPT ![s] = ChanSend(@, Tuple(k, items[s][k]))]
        /\ prod' = [prod EXCEPT ![s].left = @ \ {k}]
    /\ ret' = Quiet
    /\ UNCHANGED <<items, rw, callerVars, scan, wk, fan, out, cons, snap, moreVars>>

snapshotlikeRUnlock(s) ==
    /\ scan.mode = "IterBufferedLike"
    /\ prod[s].pc = "range"
    /\ prod[s].left = {}
    /\ rw' = [rw EXCEPT ![s] = DoRUnlock(@)]
    /\ prod' = [prod EXCEPT ![s].pc = "close"]
    /\ ret' = Quiet
    /\ UNCHANGED <<items, callerVars, scan, chans, wk, fan, out, cons, snap, moreVars>>

snapshotlike(s) ==
    \/ snapshotlikeRLock(s) \/ snapshotlikeSend(s) \/ snapshotlikeRUnlock(s)
    \/ (scan.mode = "IterBufferedLike" /\ snapshotClose(s))

IterBufferedLike(t) ==
    /\ pc[t] = "snapshot" /\ op[t].name = "IterBufferedLike"
    /\ snapshotDone
    /\ GoFanIn(IterBufferedCap)
    /\ scan' = [scan EXCEPT !.open = TRUE]
    /\ snap' = [SnapOf(pre[t]) EXCEPT !.known = FALSE, !.want = {}]
    /\ Return0(t, Result(op[t], Nil, TRUE))
    /\ UNCHANGED <<items, rw, prod, chans, cons, moreVars>>

(***************************************************************************)
(* Keys: Count() sizes the channel ch (out); a goroutine starts one        *)
(* goroutine per shard, which sends the shard's keys on ch under the       *)
(* shard's read lock, and closes ch when all of them have finished; the    *)
(* caller appends what it receives to keys until ch is closed. A send      *)
(* waits while ch is full; on a ch without buffer it hands the key to the  *)
(* receiving caller. prod[s].all records the keys shard s held when its    *)
(* goroutine took the lock.                                                *)
(***************************************************************************)
\* the keys the table holds
StoredKeys == UNION {DOMAIN items[s] : s \in ShardIds}

CallKeys(t) ==
    /\ scan.mode = "none"
    /\ Enter0(t, Call1("Keys", <<>>), 0, "rlock")
    /\ acc' = [acc EXCEPT ![t] = 0]
    /\ scan' = [mode |-> "Keys", open |-> FALSE]
    /\ snap' = [NoSnap EXCEPT !.taken = TRUE, !.set = StoredKeys]
    /\ UNCHANGED <<todo, prod, chans, wk, fan, out, cons, moreVars>>

\* count := m.Count(); ch := make(chan string, count); go func() {...}()
KeysCount(t) ==
    /\ InRcs(t, "Keys")
    /\ rw' = [rw EXCEPT ![idx[t]] = DoRUnlock(@)]
    /\ acc' = [acc EXCEPT ![t] = CountAdd(@, Shard(t))]
    /\ IF idx[t] + 1 < ShardCount
       THEN /\ idx' = [idx EXCEPT ![t] = @ + 1]
            /\ pc' = [pc EXCEPT ![t] = "rlock"]
            /\ UNCHANGED <<out, prod, fan>>
       ELSE /\ out' = MakeChan(CountAdd(acc[t], Shard(t)))
            /\ prod' = [s \in ShardIds |-> [pc |-> "rlock", left |-> {}, all |-> {}]]
            /\ fan' = "wait"
            /\ pc' = [pc EXCEPT ![t] = "range"]
            /\ UNCHANGED idx
    /\ ret' = Quiet
    /\ UNCHANGED <<items, op, todo, calls, expect, pre, tally,
                   scan, chans, wk, cons, snap, moreVars>>

KeysRLock(s) ==
    /\ scan.mode = "Keys"
    /\ prod[s].pc = "rlock"
    /\ CanRLock(rw[s])
    /\ rw' = [rw EXCEPT ![s] = DoRLock(@)]
    /\ prod' = [prod EXCEPT ![s] = [pc |-> "range", left |-> DOMAIN items[s],
                                    all |-> DOMAIN items[s]]]
    /\ ret' = Quiet
    /\ UNCHANGED <<items, callerVars, scan, chans, wk, fan, out, cons, snap, moreVars>>

\* ch <- key into the buffer
KeysSend(s) ==
    /\ scan.mode = "Keys"
    /\ prod[s].pc = "range"
    /\ CanSend(out)
    /\ \E k \in prod[s].left :
        /\ out' = ChanSend(out, k)
        /\ prod' = [prod EXCEPT ![s].left = @ \ {k}]
    /\ ret' = Quiet
    /\ UNCHANGED <<items, rw, callerVars, scan, chans, wk, fan, cons, snap, moreVars>>

\* a goroutine that leaves its loop before every key is sent
KeysRUnlockEarly(s) ==
    /\ scan.mode = "Keys"
    /\ prod[s].pc = "range"
    /\ rw' = [rw EXCEPT ![s] = DoRUnlock(@)]
    /\ prod' = [prod EXCEPT ![s].pc = "done"]
    /\ ret' = Quiet
    /\ UNCHANGED <<items, callerVars, scan, chans, wk, fan, out, cons, snap, moreVars>>

\* shard.RUnlock(); wg.Done()
KeysRUnlock(s) ==
    /\ scan.mode = "Keys"
    /\ prod[s].pc = "range"
    /\ prod[s].left = {}
    /\ rw' = [rw EXCEPT ![s] = DoRUnlock(@)]
    /\ prod' = [prod EXCEPT ![s].pc = "done"]
    /\ ret' = Quiet
    /\ UNCHANGED <<items, callerVars, scan, chans, wk, fan, out, cons, snap, moreVars>>

\* wg.Wait(); close(ch)
KeysClose ==
    /\ scan.mode = "Keys"
    /\ fan = "wait"
    /\ \A s \in ShardIds : prod[s].pc = "done"
    /\ out' = ChanClose(out)
    /\ fan' = "done"
    /\ ret' = Quiet
    /\ UNCHANGED <<items, rw, callerVars, scan, prod, chans, wk, cons, snap, moreVars>>

\* for k := range ch { keys = append(keys, k) }; return keys
KeysRange(t) ==
    /\ pc[t] = "range" /\ op[t].name = "Keys"
    /\ \/ /\ CanRecv(out)
          /\ keys' = [keys EXCEPT ![t] = Append(@, Head(out.buf))]
          /\ out' = ChanRecv(out)
          /\ ret' = Quiet
          /\ UNCHANGED <<pc, op, idx, acc, todo, calls, expect, pre, tally, prod>>
       \/ /\ out.cap = 0
          /\ \E s \in ShardIds :
              /\ prod[s].pc = "range"
              /\ \E k \in prod[s].left :
                  /\ keys' = [keys EXCEPT ![t] = Append(@, k)]
                  /\ prod' = [prod EXCEPT ![s].left = @ \ {k}]
          /\ ret' = Quiet
          /\ UNCHANGED <<pc, op, idx, acc, todo, calls, expect, pre, tally, out>>
       \/ /\ AtEnd(out)
          /\ Return0(t, [Result(op[t], Nil, TRUE) EXCEPT !.val = [t |-> "keys", d |-> keys[t]]])
          /\ keys' = [keys EXCEPT ![t] = <<>>]
          /\ UNCHANGED <<out, prod>>
    /\ UNCHANGED <<items, rw, scan, chans, wk, fan, cons, snap, pure>>

KeysShard(s) == KeysRLock(s) \/ KeysSend(s) \/ KeysRUnlock(s)

\* Keys() as its caller runs it
KeysOp(t) == KeysCount(t) \/ KeysRange(t)

(***************************************************************************)
(* Upsert and UpdateCb with a callback that calls the table: op.cb names   *)
(* the operation the callback calls (Get or Set) and op.data holds its key *)
(* and value. The callback runs inside the caller's critical section, so   *)
(* the inner call takes the lock of its key's shard while the caller holds *)
(* the write lock of the outer key's shard; the callback then returns      *)
(* newValue.                                                               *)
(***************************************************************************)
Reentrant == {"Get", "Set"}

InnerKey(o) == CHOOSE k \in DOMAIN o.data : TRUE

InnerShard(t) == GetShard(InnerKey(op[t]))

CallReentrant(t, n, K, C, I) ==
    \E k \in K, c \in C, i \in I :
        Start(t, [Call2(n, k, IntV(1)) EXCEPT !.cb = c, !.data = (i :> IntV(2))],
              "lock")

\* cb(ok, v, value) is called and calls m.Get or m.Set, whose first step is
\* shard.RLock() or shard.Lock(); UpdateCb does not call cb on an absent key
CbCalls(t) ==
    /\ pc[t] = "cs" /\ op[t].name \in {"Upsert", "UpdateCb"}
    /\ op[t].cb \in Reentrant
    /\ IF op[t].name = "UpdateCb" /\ op[t].key \notin DOMAIN Shard(t)
       THEN WriteBody(t, Shard(t), Result(op[t], Nil, FALSE))
       ELSE /\ pc' = [pc EXCEPT ![t] = IF op[t].cb = "Get" THEN "cbrlock" ELSE "cblock"]
            /\ ret' = Quiet
            /\ UNCHANGED <<items, rw, op, idx, acc, todo, calls, expect, pre, tally,
                           iterVars, moreVars>>

CbRLock(t) ==
    /\ pc[t] = "cbrlock"
    /\ CanRLock(rw[InnerShard(t)])
    /\ rw' = [rw EXCEPT ![InnerShard(t)] = DoRLock(@)]
    /\ pc' = [pc EXCEPT ![t] = "cbrcs"]
    /\ ret' = Quiet
    /\ UNCHANGED <<items, op, idx, acc, todo, calls, expect, pre, tally, iterVars, moreVars>>

CbLock(t) ==
    /\ pc[t] = "cblock"
    /\ CanLock(rw[InnerShard(t)])
    /\ rw' = [rw EXCEPT ![InnerShard(t)] = DoLock(@)]
    /\ pc' = [pc EXCEPT ![t] = "cbdrain"]
    /\ ret' = Quiet
    /\ UNCHANGED <<items, op, idx, acc, todo, calls, expect, pre, tally, iterVars, moreVars>>

CbLockEnter(t) ==
    /\ pc[t] = "cbdrain"
    /\ CanEnter(rw[InnerShard(t)])
    /\ pc' = [pc EXCEPT ![t] = "cbcs"]
    /\ ret' = Quiet
    /\ UNCHANGED <<items, rw, op, idx, acc, todo, calls, expect, pre, tally,
                   iterVars, moreVars>>

\* the inner Get or Set runs and returns to the callback
CbReturns(t) ==
    /\ \/ /\ pc[t] = "cbrcs"
          /\ rw' = [rw EXCEPT ![InnerShard(t)] = DoRUnlock(@)]
          /\ UNCHANGED items
       \/ /\ pc[t] = "cbcs"
          /\ items' = [items EXCEPT ![InnerShard(t)] =
                          SetStore(@, InnerKey(op[t]), op[t].data[InnerKey(op[t])])]
          /\ rw' = [rw EXCEPT ![InnerShard(t)] = DoUnlock(@)]
    /\ pc' = [pc EXCEPT ![t] = "cbdone"]
    /\ pre' = [u \in Threads |-> IF u = t THEN pre[t] ELSE Had(u, t)]
    /\ ret' = Quiet
    /\ UNCHANGED <<op, idx, acc, todo, calls, expect, tally, iterVars, moreVars>>

\* the callback has returned newValue: shard.items[key] = res
CbStores(t) ==
    /\ pc[t] = "cbdone"
    /\ WriteBody(t, MapPut(Shard(t), op[t].key, op[t].val),
                 Invoked(Result(op[t], IF op[t].name = "Upsert" THEN op[t].val ELSE Nil,
                                TRUE)))

Callback(t) ==
    CbCalls(t) \/ CbRLock(t) \/ CbLock(t) \/ CbLockEnter(t) \/ CbReturns(t) \/ CbStores(t)

(***************************************************************************)
(* New(shards) for any shard count, and operations of one caller on the    *)
(* table it returns. pure holds the call: the argument, where the call is  *)
(* (called, made, or panicked with the run-time error), the table m that   *)
(* was returned and the result of the last operation on it.                *)
(* make(ConcurrentMap, shards) panics on a negative length; the modulo of  *)
(* GetShard panics on a table without shards.                              *)
(***************************************************************************)
CallNew(N) ==
    /\ pure.fn = "none"
    /\ \E n \in N : pure' = [fn |-> "New", at |-> "called", shards |-> n]
    /\ ret' = Quiet
    /\ UNCHANGED <<items, rw, callerVars, iterVars, keys>>

\* the value New(shards) returns, or the run-time panic it ends with
NewTable(shards) ==
    IF shards < 0
    THEN [panic |-> "makeslice: len out of range"]
    ELSE [panic |-> "", Shards |-> shards,
          HashMap |-> [i \in 0..(shards - 1) |-> EmptyMap]]

NewReturns ==
    /\ pure.fn = "New" /\ pure.at = "called"
    /\ LET m == NewTable(pure.shards)
       IN  pure' = IF m.panic # ""
                   THEN [pure EXCEPT !.at = "panicked"] @@ [error |-> m.panic]
                   ELSE [pure EXCEPT !.at = "made"] @@ [m |-> m, last |-> "none"]
    /\ ret' = Quiet
    /\ UNCHANGED <<items, rw, callerVars, iterVars, keys>>

\* m.HashMap[uint(fnv32(key)) % uint(m.Shards)], or the run-time panic
GetShardOf(m, key) ==
    IF m.Shards = 0 THEN [panic |-> "integer divide by zero", index |-> 0]
    ELSE [panic |-> "", index |-> ModLimbs(fnv32(key), m.Shards)]

\* m.Set(key, value) on the table New returned
NewSet(K, V) ==
    /\ pure.fn = "New" /\ pure.at = "made"
    /\ \E k \in K, v \in V :
        LET g == GetShardOf(pure.m, k)
        IN  pure' = IF g.panic # ""
                    THEN [pure EXCEPT !.at = "panicked", !.last = "Set"] @@ [error |-> g.panic]
                    ELSE [pure EXCEPT !.m.HashMap[g.index] = SetStore(@, k, v),
                                      !.last = "Set"]
    /\ ret' = Quiet
    /\ UNCHANGED <<items, rw, callerVars, iterVars, keys>>

\* m.Get(key) on the table New returned
NewGet(K) ==
    /\ pure.fn = "New" /\ pure.at = "made"
    /\ \E k \in K :
        LET g == GetShardOf(pure.m, k)
        IN  pure' = IF g.panic # ""
                    THEN [pure EXCEPT !.at = "panicked", !.last = "Get"] @@ [error |-> g.panic]
                    ELSE [pure EXCEPT !.last = "Get"]
    /\ ret' = Quiet
    /\ UNCHANGED <<items, rw, callerVars, iterVars, keys>>

\* m.Count() on the table New returned: no shard, no lock, 0
NewCount ==
    /\ pure.fn = "New" /\ pure.at = "made"
    /\ pure' = [pure EXCEPT !.last = "Count"]
    /\ ret' = Quiet
    /\ UNCHANGED <<items, rw, callerVars, iterVars, keys>>

(***************************************************************************)
(* fnv32(key) as the code runs it, one iteration of its loop per step.     *)
(* pure holds the call: key, the loop index i (from 1) and hash.           *)
(***************************************************************************)
CallFnv32(K) ==
    /\ pure.fn = "none"
    /\ \E key \in K :
        pure' = [fn |-> "fnv32", at |-> "loop", key |-> key, i |-> 1,
                 hash |-> <<OffsetHi, OffsetLo>>]
    /\ ret' = Quiet
    /\ UNCHANGED <<items, rw, callerVars, iterVars, keys>>

\* hash *= prime32; hash ^= uint32(key[i]); i++
Fnv32Loop ==
    /\ pure.fn = "fnv32" /\ pure.at = "loop"
    /\ pure.i <= Len(pure.key)
    /\ pure' = [pure EXCEPT !.hash = fnv32step(@, pure.key[pure.i]), !.i = @ + 1]
    /\ ret' = Quiet
    /\ UNCHANGED <<items, rw, callerVars, iterVars, keys>>

\* return hash
Fnv32Return ==
    /\ pure.fn = "fnv32" /\ pure.at = "loop"
    /\ pure.i > Len(pure.key)
    /\ pure' = [pure EXCEPT !.at = "returned"]
    /\ ret' = Quiet
    /\ UNCHANGED <<items, rw, callerVars, iterVars, keys>>

(***************************************************************************)
(* Spec: callers running Set and Get on any key.                           *)
(***************************************************************************)
Ints == {IntV(1), IntV(2)}

\* two keys of one shard
Pair == {KA, KC}

Locking(t) == Lock(t) \/ LockEnter(t) \/ RLock(t)

Next ==
    \E t \in Threads :
        \/ CallSet(t, Keys, Ints) \/ CallGet(t, Keys)
        \/ Locking(t)
        \/ Set(t) \/ Get(t)

Spec == Init /\ [][Next]_vars

\* the stored state of key k, looked up the way every operation does
Stored(k) == MapGet(items[GetShard(k)], k)

\* no call that stores or deletes k is under way
Settled(k) == \A t \in Threads : InFlight(t) => k \notin Touched(op[t])

\* a call named n returns in this state, and no mutating call on its key
\* overlapped it
Returned(n) == ret.r.name = n /\ ~ret.pre.dist

(***************************************************************************)
(* C1. A Get(k) that no Set on k overlaps returns (v, true) where v is the *)
(* value of the last Set(k, v) that returned, and (nil, false) when k was  *)
(* never set; and once Sets on distinct keys have returned, each key holds *)
(* the value written for it.                                               *)
(***************************************************************************)
C1_GetAfterSet ==
    /\ Returned("Get") /\ ret.pre.st = "present"
          => ret.r.val = ret.pre.v /\ ret.r.ok
    /\ Returned("Get") /\ ret.pre.st = "absent"
          => ret.r.val = Nil /\ ~ret.r.ok
    /\ \A k \in Keys : Settled(k) /\ expect[k].st = "present"
          => Stored(k) = <<expect[k].v, TRUE>>

C1_Witness ==
    /\ Returned("Get") /\ ret.pre.st = "present" /\ ret.r.ok
    /\ Cardinality({k \in Keys : expect[k].st = "present"}) >= 2

(***************************************************************************)
(* SpecAbsent: callers running SetIfAbsent, Remove and Get on two keys of   *)
(* one shard.                                                              *)
(***************************************************************************)
NextAbsent ==
    \E t \in Threads :
        \/ CallSetIfAbsent(t, Pair, Ints) \/ CallRemove(t, Pair)
        \/ CallGet(t, Pair)
        \/ Locking(t)
        \/ SetIfAbsent(t) \/ Remove(t) \/ Get(t)

SpecAbsent == Init /\ [][NextAbsent]_vars

(***************************************************************************)
(* C2. Of the SetIfAbsent(k, v_i) calls made since k was absent, with no   *)
(* other mutating call on k in between, at most one returns true; once     *)
(* they have all returned exactly one has returned true; and the value     *)
(* stored under k is the value of the call that returned true. Called on   *)
(* its own, SetIfAbsent returns true on an absent key and false on a       *)
(* present one.                                                            *)
(***************************************************************************)
C2_SetIfAbsentOnce ==
    /\ \A k \in Keys : tally[k].by = "SetIfAbsent" =>
          /\ tally[k].n <= 1
          /\ tally[k].n = 1 => Stored(k) = <<tally[k].v, TRUE>>
          /\ Settled(k) /\ tally[k].m >= 1 => tally[k].n = 1
    /\ Returned("SetIfAbsent") /\ ret.pre.st = "absent" => ret.r.ok
    /\ Returned("SetIfAbsent") /\ ret.pre.st = "present" => ~ret.r.ok

\* two overlapping calls on one key: the second to return lost
C2_Witness ==
    /\ ret.r.name = "SetIfAbsent" /\ ret.pre.dist /\ ~ret.r.ok
    /\ tally[ret.r.key].by = "SetIfAbsent"
    /\ tally[ret.r.key].m = 2 /\ tally[ret.r.key].n = 1
    /\ tally[ret.r.key].v # ret.r.o.val

(***************************************************************************)
(* SpecCas: callers running Set, SetIfPresent and Get on two keys of one   *)
(* shard, with scalar and slice values.                                    *)
(***************************************************************************)
NextCas ==
    \E t \in Threads :
        \/ CallSet(t, Pair, {IntV(1), SliceV(<<1>>)})
        \/ CallSetIfPresent(t, Pair, {IntV(2)}, {IntV(1), Nil, SliceV(<<2>>)})
        \/ CallGet(t, {KA})
        \/ Locking(t)
        \/ Set(t) \/ SetIfPresent(t) \/ Get(t)

SpecCas == Init /\ [][NextCas]_vars

Panicked(n) == \E t \in Threads : pc[t] = "panicked" /\ op[t].name = n

\* the value equality of the claim: same kind of value, same content
SameValue(a, b) == a = b

\* SetIfPresent calls that return behave as a compare-and-swap
CasReturns ==
    /\ Returned("SetIfPresent") /\ ret.pre.st = "present"
         /\ SameValue(ret.pre.v, ret.r.o.old)
          => ret.r.ok /\ expect[ret.r.key] = Present(ret.r.o.val)
    /\ Returned("SetIfPresent") /\ ret.pre.st = "absent"
          => ~ret.r.ok /\ expect[ret.r.key] = Absent
    /\ Returned("SetIfPresent") /\ ret.pre.st = "present"
         /\ ~SameValue(ret.pre.v, ret.r.o.old)
          => ~ret.r.ok /\ expect[ret.r.key] = Present(ret.pre.v)
    /\ \A k \in Keys : Settled(k) /\ expect[k].st = "present"
          => Stored(k) = <<expect[k].v, TRUE>>
    /\ \A k \in Keys : Settled(k) /\ expect[k].st = "absent"
          => Stored(k) = <<Nil, FALSE>>
    /\ \A k \in Keys : tally[k].by = "SetIfPresent" => tally[k].n <= 1

(***************************************************************************)
(* C3. SetIfPresent(k, new, old) returns true and stores new when k holds  *)
(* a value equal to old, and in every other case returns false and leaves  *)
(* the shard as it was; of the calls on k that expect the same old and     *)
(* write another value at most one returns true. Every call returns.       *)
(***************************************************************************)
C3_SetIfPresentCas == CasReturns /\ ~Panicked("SetIfPresent")

(***************************************************************************)
(* SpecUpsert: callers running Upsert with the appending callback, Set of  *)
(* a slice or a scalar, and Get, on two keys of one shard.                 *)
(***************************************************************************)
NextUpsert ==
    \E t \in Threads :
        \/ CallUpsert(t, Pair, Ints)
        \/ CallSet(t, {KA}, {SliceV(<<1>>), IntV(1)})
        \/ CallGet(t, {KA})
        \/ Locking(t)
        \/ Upsert(t) \/ Set(t) \/ Get(t)

SpecUpsert == Init /\ [][NextUpsert]_vars

\* the numbers of a sequence, as a bag
RECURSIVE BagOf(_)
BagOf(q) == IF q = <<>> THEN <<>> ELSE BagAdd(BagOf(Tail(q)), Head(q))

RECURSIVE BagSum(_, _)
BagSum(a, b) == IF a = <<>> THEN b ELSE BagSum(Tail(a), BagAdd(b, Head(a)))

Occurs(b, x) == Cardinality({i \in DOMAIN b : b[i] = x})
SubBag(a, b) == \A i \in DOMAIN a : Occurs(a, a[i]) <= Occurs(b, a[i])
IsPrefix(a, b) == Len(a) <= Len(b) /\ SubSeq(b, 1, Len(a)) = a

\* the slice a window of Upsert calls on k started from
Base(k) == IF tally[k].kind = "present" THEN tally[k].w.d ELSE <<>>

(***************************************************************************)
(* C4. An Upsert(k, new, combine) that returns has stored and returned     *)
(* combine(present, current, new) for the state of k it found: called on   *)
(* its own it returns combine of what the completed calls left, and the    *)
(* stored value is the returned result. Of the appending Upsert calls made *)
(* on k since k was known, the stored slice holds the starting slice       *)
(* followed by the value of every call that returned and of no call that   *)
(* was not made, each once; the slice a call returns ends with its own     *)
(* value, after the values of all calls that returned before it was made.  *)
(***************************************************************************)
C4_UpsertFold ==
    /\ ret.r.name = "Upsert" => ret.r.cbn = 1
    /\ Returned("Upsert") /\ ret.pre.st = "absent"
          => ret.r.val = Combined(FALSE, Nil, ret.r.o.val)
    /\ Returned("Upsert") /\ ret.pre.st = "present"
          => ret.r.val = Combined(TRUE, ret.pre.v, ret.r.o.val)
    /\ \A k \in Keys : Settled(k) /\ expect[k].st = "present"
          => Stored(k) = <<expect[k].v, TRUE>>
    /\ \A k \in Keys : tally[k].by = "Upsert" /\ tally[k].m >= 1 =>
          LET g == Stored(k)
          IN  /\ g[2] /\ g[1].t = "slice"
              /\ IsPrefix(Base(k), g[1].d)
              /\ SubBag(BagSum(BagOf(Base(k)), tally[k].bag), BagOf(g[1].d))
              /\ SubBag(BagOf(g[1].d), BagSum(BagOf(Base(k)), tally[k].called))
              /\ Len(g[1].d) <= Len(Base(k)) + Len(tally[k].called)
              /\ Len(g[1].d) >= Len(Base(k)) + Len(tally[k].bag)
    /\ ret.r.name = "Upsert" /\ tally[ret.r.key].by = "Upsert" =>
          LET d == ret.r.val.d
              k == ret.r.key
          IN  /\ d # <<>> /\ d[Len(d)] = Num(ret.r.o.val)
              /\ IsPrefix(Base(k), d)
              /\ SubBag(BagSum(BagOf(Base(k)), BagAdd(ret.pre.seen, Num(ret.r.o.val))),
                        BagOf(d))
              /\ SubBag(BagOf(d), BagSum(BagOf(Base(k)), tally[k].called))

\* two overlapping Upserts on a key that held a slice have both returned
C4_Witness ==
    /\ ret.r.name = "Upsert" /\ ret.pre.dist
    /\ tally[ret.r.key].by = "Upsert" /\ tally[ret.r.key].kind = "present"
    /\ tally[ret.r.key].m = 2 /\ Settled(ret.r.key)
    /\ Len(Stored(ret.r.key)[1].d) = 3

(***************************************************************************)
(* SpecPop: callers running Set, Pop and Get on two keys of one shard.     *)
(***************************************************************************)
NextPop ==
    \E t \in Threads :
        \/ CallSet(t, Pair, Ints) \/ CallPop(t, Pair) \/ CallGet(t, Pair)
        \/ Locking(t)
        \/ Set(t) \/ Pop(t) \/ Get(t)

SpecPop == Init /\ [][NextPop]_vars

(***************************************************************************)
(* C5. A Pop(k) called on its own returns (v, true) when k holds v and     *)
(* (nil, false) when k is absent; after it k is absent (a following Get    *)
(* reports absent) and the other keys are as they were. Of the Pop calls   *)
(* made on k since k was known to hold v, with no other mutating call on k *)
(* in between, at most one returns true, it returns v, and once they have  *)
(* all returned exactly one has returned true.                             *)
(***************************************************************************)
C5_PopOnce ==
    /\ Returned("Pop") /\ ret.pre.st = "present"
          => ret.r.val = ret.pre.v /\ ret.r.ok
    /\ Returned("Pop") /\ ret.pre.st = "absent"
          => ret.r.val = Nil /\ ~ret.r.ok
    /\ Returned("Get") /\ ret.pre.st = "absent"
          => ret.r.val = Nil /\ ~ret.r.ok
    /\ \A k \in Keys : Settled(k) /\ expect[k].st # "unknown"
          => Stored(k) = <<expect[k].v, expect[k].st = "present">>
    /\ \A k \in Keys : tally[k].by = "Pop" =>
          /\ tally[k].n <= 1
          /\ tally[k].n = 1 => tally[k].v = tally[k].w /\ ~Stored(k)[2]
          /\ Settled(k) /\ tally[k].m >= 1 => tally[k].n = 1

\* two overlapping Pops of one key: the second to return found it gone
C5_Witness ==
    /\ ret.r.name = "Pop" /\ ret.pre.dist /\ ~ret.r.ok
    /\ tally[ret.r.key].by = "Pop"
    /\ tally[ret.r.key].m = 2 /\ tally[ret.r.key].n = 1

(***************************************************************************)
(* SpecUpdate: callers running Update, UpdateCb with the appending         *)
(* callback, Set and Get on two keys of one shard.                         *)
(***************************************************************************)
NextUpdate ==
    \E t \in Threads :
        \/ CallUpdate(t, Pair, {SliceV(<<2>>)})
        \/ CallUpdateCb(t, Pair, {IntV(2), SliceV(<<2>>)})
        \/ CallSet(t, Pair, {SliceV(<<1>>)})
        \/ CallGet(t, {KA})
        \/ Locking(t)
        \/ Update(t) \/ UpdateCb(t) \/ Set(t) \/ Get(t)

SpecUpdate == Init /\ [][NextUpdate]_vars

\* every key is settled and known
AllKnown == \A k \in Keys : Settled(k) /\ expect[k].st # "unknown"

(***************************************************************************)
(* C6. Called on its own on an absent key, Update and UpdateCb return      *)
(* false, UpdateCb does not invoke its callback, and the key is absent     *)
(* afterwards; on a key that holds a value they return true, Update having *)
(* stored v and UpdateCb combine(true, current, v), the callback invoked   *)
(* once. No other entry changes, nor does the number of entries.           *)
(***************************************************************************)
C6_UpdateNoOp ==
    /\ Returned("Update") /\ ret.pre.st = "absent"
          => ~ret.r.ok /\ expect[ret.r.key] = Absent
    /\ Returned("Update") /\ ret.pre.st = "present"
          => ret.r.ok /\ expect[ret.r.key] = Present(ret.r.o.val)
    /\ Returned("UpdateCb") /\ ret.pre.st = "absent"
          => ~ret.r.ok /\ ret.r.cbn = 0 /\ expect[ret.r.key] = Absent
    /\ Returned("UpdateCb") /\ ret.pre.st = "present"
          => /\ ret.r.ok /\ ret.r.cbn = 1
             /\ expect[ret.r.key] = Present(Combined(TRUE, ret.pre.v, ret.r.o.val))
    /\ \A k \in Keys : Settled(k) /\ expect[k].st # "unknown"
          => Stored(k) = <<expect[k].v, expect[k].st = "present">>
    /\ AllKnown => Entries = ExpectedCount

\* an UpdateCb on an absent key, and an Update on an absent key
C6_Witness ==
    /\ Returned("UpdateCb") /\ ret.pre.st = "absent" /\ ~ret.r.ok
    /\ ret.r.o.val.t = "slice"
    /\ AllKnown /\ Entries = 1

(***************************************************************************)
(* SpecCount: callers running Set, MSet, Remove, Pop and Count on keys of  *)
(* both shards.                                                            *)
(***************************************************************************)
NextCount ==
    \E t \in Threads :
        \/ CallSet(t, Keys, {IntV(1)})
        \/ CallMSet(t, {[k \in {KA, KB} |-> IntV(2)]})
        \/ CallRemove(t, {KA, KC}) \/ CallPop(t, {KB})
        \/ CallCount(t)
        \/ Locking(t)
        \/ Set(t) \/ MSet(t) \/ Remove(t) \/ Pop(t) \/ Count(t)

SpecCount == Init /\ [][NextCount]_vars

(***************************************************************************)
(* C7. A Count() that no mutating call overlaps returns the number of keys *)
(* the completed calls left in the table: 0 on a new table, one more for   *)
(* each key a Set or MSet inserted, the same after a key is set again, one *)
(* less for each present key that Remove or Pop removed. That number is    *)
(* the number of entries stored.                                           *)
(***************************************************************************)
C7_CountQuiescent ==
    /\ Returned("Count") /\ ret.pre.st = "present" => ret.r.val = ret.pre.v
    /\ AllKnown => Entries = ExpectedCount
    /\ (\A t \in Threads : pc[t] = "idle") /\ calls = 0 => ExpectedCount = 0

\* Count returns 2 for a table with two keys in one shard
C7_Witness ==
    /\ Returned("Count") /\ ret.pre.st = "present" /\ ret.r.val = IntV(2)
    /\ {KA, KC} \subseteq DOMAIN items[GetShard(KA)]

(***************************************************************************)
(* SpecScan: callers that fill the table, scan it in one of the five       *)
(* modes and set another key, the goroutines of the scan, and a reader of  *)
(* the iterator's channel.                                                 *)
(***************************************************************************)
Filled == {[k \in {KA, KB} |-> IntV(1)]}

NextScan ==
    \/ \E t \in Threads :
        \/ CallMSet(t, Filled)
        \/ CallSet(t, {KC}, {IntV(2)})
        \/ CallIter(t) \/ CallIterBuffered(t) \/ CallItems(t)
        \/ CallIterCb(t) \/ CallIterConcurrentCb(t)
        \/ Locking(t)
        \/ MSet(t) \/ Set(t)
        \/ Iter(t) \/ IterBuffered(t) \/ Items(t)
        \/ IterCb(t) \/ IterConcurrentCb(t)
    \/ \E s \in ShardIds :
        snapshot(s) \/ IterConcurrentCbRLock(s) \/ IterConcurrentCbRange(s)
    \/ fanIn
    \/ Receive

SpecScan == Init /\ [][NextScan]_vars

\* the table the completed calls describe
ExpectedTable ==
    [k \in {x \in Keys : expect[x].st = "present"} |-> expect[k].v]

\* C8: a full scan that overlaps no mutating call delivers every stored
\* entry exactly once and nothing else, as many entries as Count() counts:
\* IterCb and IterConcurrentCb have called fn so when they return, Items
\* returns the table, and the reader of Iter's or IterBuffered's channel has
\* received so when it finds the channel closed. The channel is closed only
\* when no entry is left behind it.
C8_ScanOnce ==
    /\ (Returned("IterCb") \/ Returned("IterConcurrentCb")) /\ Undisturbed(ret.pre)
         => cons.got = ExpectedTuples /\ cons.n = ExpectedCount
    /\ Returned("Items") /\ Undisturbed(ret.pre)
         => ret.r.o.data = ExpectedTable /\ cons.n = ExpectedCount
    /\ cons.closed /\ snap.known
         => cons.got = snap.want /\ cons.n = Cardinality(snap.want)
    /\ out.closed => Held \subseteq (cons.got \cup Range(out.buf))

\* the reader of a channel that Iter() returned for a table of two entries
\* has received both and found the channel closed
C8_Witness ==
    /\ scan.mode = "Iter"
    /\ snap.known
    /\ cons.closed
    /\ cons.got = {Tuple(KA, IntV(1)), Tuple(KB, IntV(1))}
    /\ cons.n = 2

(***************************************************************************)
(* SpecIter: callers that fill the table, take an iterator and set keys,   *)
(* the iterator's goroutines, and a reader of its channel.                 *)
(***************************************************************************)
NextIter ==
    \/ \E t \in Threads :
        \/ CallMSet(t, Filled)
        \/ CallSet(t, {KA, KC}, {IntV(2)})
        \/ CallIter(t) \/ CallIterBuffered(t)
        \/ Lock(t) \/ LockEnter(t)
        \/ MSet(t) \/ Set(t)
        \/ Iter(t) \/ IterBuffered(t)
    \/ \E s \in ShardIds : snapshot(s)
    \/ fanIn
    \/ Receive

SpecIter == Init /\ [][NextIter]_vars

\* C9: the content of an iterator is fixed by the time Iter() or
\* IterBuffered() returns. From then on what the iterator holds or has
\* delivered never changes, whatever is set afterwards; if the call
\* overlapped no mutating call it is the entries stored when the iterator
\* was created; and a reader that drains the channel has received exactly
\* those entries, each once. No writer is inside a shard whose entries are
\* being copied.
C9_IterFixed ==
    /\ snap.taken => Held = snap.set
    /\ \A t \in Threads :
         pc[t] = "cs" => prod[idx[t]].pc # "range"
    /\ snap.taken /\ snap.known => snap.set = snap.want
    /\ cons.closed =>
         /\ cons.got = snap.set
         /\ cons.n = Cardinality(snap.set)

\* the iterator was created on a table of two entries, a Set called after
\* it was returned stored a third key, and the reader has drained the channel
C9_Witness ==
    /\ cons.closed
    /\ snap.known
    /\ snap.set = {Tuple(KA, IntV(1)), Tuple(KB, IntV(1))}
    /\ items[GetShard(KC)] = (KA :> IntV(1)) @@ (KC :> IntV(2))

(***************************************************************************)
(* SpecUndrained: callers that set keys, take an iterator and go on        *)
(* writing, and a reader that may never receive. Every caller inside an    *)
(* operation and every snapshot goroutine keeps running; nothing makes     *)
(* the reader receive.                                                     *)
(***************************************************************************)
Running(t) ==
    \/ Lock(t) \/ LockEnter(t)
    \/ Set(t) \/ Remove(t) \/ Upsert(t)
    \/ Iter(t) \/ IterBuffered(t)

NextUndrained ==
    \/ \E t \in Threads :
        \/ CallSet(t, {KA, KB}, {IntV(1)})
        \/ CallRemove(t, {KA})
        \/ CallUpsert(t, {KC}, {IntV(1)})
        \/ CallIter(t) \/ CallIterBuffered(t)
        \/ Running(t)
    \/ \E s \in ShardIds : snapshot(s)
    \/ fanIn
    \/ Receive

Scheduled ==
    /\ \A t \in Threads : WF_vars(Running(t))
    /\ \A s \in ShardIds : WF_vars(snapshot(s))

SpecUndrained == Init /\ [][NextUndrained]_vars /\ Scheduled

\* C10: an iterator that is not drained never blocks writers. Once Iter()
\* or IterBuffered() has returned, every snapshot goroutine that holds a
\* read lock releases it, and every Set, Remove or Upsert called from then
\* on returns, whether or not the reader ever receives.
C10_UndrainedNoBlock ==
    /\ \A s \in ShardIds :
         (scan.open /\ prod[s].pc = "range") ~> (prod[s].pc # "range")
    /\ \A t \in Threads :
         (pre[t].open /\ op[t].name \in {"Set", "Remove", "Upsert"})
            ~> (pc[t] = "idle")

\* a writer called after Iter() returned has returned, while the reader has
\* received nothing and a fanIn goroutine waits with a tuple for it
C10_Witness ==
    /\ ret.t # 0 /\ ret.r.name \in {"Set", "Remove", "Upsert"} /\ ret.pre.open
    /\ scan.mode = "Iter"
    /\ cons.n = 0
    /\ \E s \in ShardIds : wk[s].pc = "send"

(***************************************************************************)
(* SpecBuffered: callers that fill the table and take a buffered iterator, *)
(* its goroutines, and a reader that may never receive. The callers        *)
(* inside an operation and the goroutines of snapshot, snapshotlike and    *)
(* fanIn keep running; nothing makes the reader receive.                   *)
(***************************************************************************)
Likes == {KA}

NextBuffered ==
    \/ \E t \in Threads :
        \/ CallMSet(t, Filled)
        \/ CallSet(t, {KC}, {IntV(2)})
        \/ CallIterBuffered(t) \/ CallIterBufferedLike(t, Likes)
        \/ Lock(t) \/ LockEnter(t)
        \/ MSet(t) \/ Set(t)
        \/ IterBuffered(t) \/ IterBufferedLike(t)
    \/ \E s \in ShardIds : snapshot(s) \/ snapshotlike(s)
    \/ fanIn
    \/ Receive

ScheduledBuffered ==
    /\ \A t \in Threads :
         WF_vars(Lock(t) \/ LockEnter(t) \/ MSet(t) \/ Set(t)
                 \/ IterBuffered(t) \/ IterBufferedLike(t))
    /\ \A s \in ShardIds : WF_vars(snapshot(s) \/ snapshotlike(s))
    /\ \A s \in ShardIds : WF_vars(fanInRecv(s) \/ fanInSend(s) \/ fanInDone(s))
    /\ WF_vars(fanInClose)

SpecBuffered == Init /\ [][NextBuffered]_vars /\ ScheduledBuffered

\* every goroutine of the iterator has finished and its channel is closed
Finished ==
    /\ \A s \in ShardIds : prod[s].pc = "done" /\ wk[s].pc = "done"
    /\ out.closed

\* the tuples the goroutines have still to send to out
Pending(s) ==
    (IF wk[s].pc = "send" THEN 1 ELSE 0) + Len(chans[s].buf)
    + (IF prod[s].pc = "range" THEN Cardinality(prod[s].left) ELSE 0)

RECURSIVE SumPending(_)
SumPending(S) ==
    IF S = {} THEN 0
    ELSE LET s == CHOOSE x \in S : TRUE IN Pending(s) + SumPending(S \ {s})

Upstream == SumPending(ShardIds)

\* C11: the channel of a buffered iterator has room for every tuple the
\* snapshot produces, so no goroutine ever waits to send, and whether or
\* not the reader ever receives, every snapshot and fanIn goroutine
\* finishes and the channel is closed.
C11_BufferedNeverBlocks ==
    /\ [](scan.open => Len(out.buf) + Upstream <= out.cap)
    /\ [](\A s \in ShardIds :
            /\ prod[s].pc = "range" /\ prod[s].left # {} => CanSend(chans[s])
            /\ wk[s].pc = "send" => CanSend(out))
    /\ scan.open ~> Finished

\* the channel IterBuffered() returned is closed with two tuples in its
\* buffer, and the reader has received nothing
C11_Witness ==
    /\ scan.mode = "IterBuffered"
    /\ Finished
    /\ Len(out.buf) = 2
    /\ cons.n = 0

\* C12: the goroutines of Iter() make progress on out only when the reader
\* receives. A fanIn goroutine that is sending a tuple on out stays there
\* until the reader takes that very tuple, so as long as a tuple is
\* undelivered and the reader does not receive, some fanIn goroutine has not
\* finished and out is not closed.
C12_IterLeaks ==
    /\ [](scan.mode = "Iter" /\ cons.n < Cardinality(snap.set) =>
            /\ ~out.closed
            /\ fan # "done"
            /\ \E s \in ShardIds : wk[s].pc # "done")
    /\ [][\A s \in ShardIds :
            scan.mode = "Iter" /\ wk[s].pc = "send" /\ wk'[s] # wk[s] =>
                /\ cons'.n = cons.n + 1
                /\ cons'.got = cons.got \cup {wk[s].t}]_vars

\* the reader of Iter()'s channel has received one of two tuples, the
\* snapshot goroutines have finished and a fanIn goroutine is sending the
\* other tuple
C12_Witness ==
    /\ scan.mode = "Iter" /\ scan.open
    /\ Cardinality(snap.set) = 2
    /\ cons.n = 1
    /\ \A s \in ShardIds : prod[s].pc = "done"
    /\ \E s \in ShardIds : wk[s].pc = "send"

(***************************************************************************)
(* SpecKeys: callers that set and remove keys while one calls Keys().      *)
(***************************************************************************)
\* the keys Remove is called on
Removed == {KA, KB}

KeysStep(t) == Locking(t) \/ Set(t) \/ Remove(t) \/ KeysOp(t)

NextKeys ==
    \/ \E t \in Threads :
        \/ CallSet(t, Keys, {IntV(1)})
        \/ CallRemove(t, Removed)
        \/ CallKeys(t)
        \/ KeysStep(t)
    \/ \E s \in ShardIds : KeysShard(s)
    \/ KeysClose

\* the goroutines and the callers inside an operation keep running; nothing
\* makes a caller call
ScheduledKeys ==
    /\ \A t \in Threads : WF_vars(KeysStep(t))
    /\ \A s \in ShardIds : WF_vars(KeysShard(s))
    /\ WF_vars(KeysClose)

SpecKeys == Init /\ [][NextKeys]_vars /\ ScheduledKeys

(***************************************************************************)
(* SpecMix: a mix of single-key operations, Count, Keys, an iterator whose *)
(* reader keeps receiving, and IterConcurrentCb. The callback of Upsert    *)
(* does not call the table. Every caller inside an operation, every        *)
(* goroutine and the reader keep running.                                  *)
(***************************************************************************)
Sliced == {SliceV(<<1>>)}

MixStep(t) ==
    \/ Locking(t)
    \/ Set(t) \/ SetIfPresent(t) \/ Upsert(t) \/ Count(t) \/ KeysOp(t)
    \/ Iter(t) \/ IterConcurrentCb(t)

MixShard(s) ==
    \/ snapshot(s) \/ KeysShard(s)
    \/ IterConcurrentCbRLock(s) \/ IterConcurrentCbRange(s)

NextMix ==
    \/ \E t \in Threads :
        \/ CallSet(t, {KA}, Sliced)
        \/ CallSetIfPresent(t, {KA}, {IntV(2)}, Sliced)
        \/ CallUpsert(t, {KB}, {IntV(1)})
        \/ CallCount(t) \/ CallKeys(t)
        \/ CallIter(t) \/ CallIterConcurrentCb(t)
        \/ MixStep(t)
    \/ \E s \in ShardIds : MixShard(s) \/ fanInRecv(s) \/ fanInDone(s)
    \/ KeysClose
    \/ fanInClose
    \/ Receive

ScheduledMix ==
    /\ \A t \in Threads : WF_vars(MixStep(t))
    /\ \A s \in ShardIds : WF_vars(MixShard(s))
    /\ \A s \in ShardIds : WF_vars(fanInRecv(s) \/ fanInDone(s))
    /\ WF_vars(fanInClose) /\ WF_vars(KeysClose)
    /\ WF_vars(Receive)

SpecMix == Init /\ [][NextMix]_vars /\ ScheduledMix

\* the callers that hold or are taking the write lock of s, and the callers
\* and goroutines that hold its read lock
Writers(s) == {t \in Threads : pc[t] \in {"drain", "cs", "panicked"} /\ idx[t] = s}
Readers(s) ==
    Cardinality({t \in Threads : pc[t] = "rcs" /\ idx[t] = s})
    + (IF prod[s].pc = "range" THEN 1 ELSE 0)

\* every lock that is held is held by a caller or goroutine that holds no
\* other: a caller holds at most the lock of its current shard, a shard's
\* goroutine at most the lock of its shard
OneLockEach ==
    \A s \in ShardIds :
        /\ rw[s].r = Readers(s)
        /\ Cardinality(Writers(s)) <= 1
        /\ rw[s].w = (Writers(s) # {})

\* an operation that is called returns, unless some caller has panicked
ReturnsUnlessPanicked ==
    \A t \in Threads :
        (pc[t] # "idle") ~> (pc[t] = "idle" \/ \E u \in Threads : pc[u] = "panicked")

\* C13: no caller or goroutine holds more than one shard lock, and every
\* operation of a mix whose callbacks do not call the table and whose
\* iterators are drained returns.
C13_DeadlockFree ==
    /\ []OneLockEach
    /\ \A t \in Threads : (pc[t] # "idle") ~> (pc[t] = "idle")

(***************************************************************************)
(* SpecReenter: callers of Upsert and UpdateCb whose callback calls Get or *)
(* Set on a key of the same shard or of another one, next to callers of    *)
(* Set and Get.                                                            *)
(***************************************************************************)
NextReenter ==
    \E t \in Threads :
        \/ CallReentrant(t, "Upsert", {KA}, Reentrant, Keys)
        \/ CallReentrant(t, "UpdateCb", {KA}, Reentrant, {KA, KB})
        \/ CallSet(t, {KA, KC}, {IntV(1)})
        \/ CallGet(t, {KA})
        \/ Locking(t)
        \/ Set(t) \/ Get(t)
        \/ Callback(t)

SpecReenter == Init /\ [][NextReenter]_vars

\* t is inside the callback of its Upsert or UpdateCb
InCallback(t) == pc[t] \in {"cbrlock", "cbrcs", "cblock", "cbdrain", "cbcs", "cbdone"}

\* the callback of t is at the lock of the shard t holds
Reentered(t) == pc[t] \in {"cbrlock", "cblock", "cbdrain"} /\ InnerShard(t) = idx[t]

\* C14: while the callback of an Upsert or UpdateCb runs, its caller holds
\* the write lock of the key's shard and no other caller is inside that
\* shard; a callback that calls Get or Set on a key of that shard never
\* gets the lock, so the outer operation never returns and the shard stays
\* locked.
C14_CallbackReentrancy ==
    /\ [](\A t \in Threads : InCallback(t) =>
            /\ rw[idx[t]].w
            /\ \A u \in Threads \ {t} :
                 ~(pc[u] \in {"cs", "rcs", "cbcs", "cbrcs"}
                   /\ (IF pc[u] \in {"cs", "rcs"} THEN idx[u] ELSE InnerShard(u)) = idx[t]))
    /\ [](\A t \in Threads : pc[t] \in {"cbrcs", "cbcs"} => InnerShard(t) # idx[t])
    /\ [][\A t \in Threads :
            Reentered(t) => pc'[t] \in {"cbrlock", "cblock", "cbdrain"} /\ rw'[idx[t]].w]_vars

\* the callback of an Upsert on KA waits for the read lock of KA's shard,
\* which its caller holds, and another caller waits for that lock too
C14_Witness ==
    \E t \in Threads, u \in Threads :
        /\ op[t].name = "Upsert" /\ pc[t] = "cbrlock" /\ InnerKey(op[t]) = KA
        /\ u # t /\ pc[u] \in {"lock", "rlock"} /\ idx[u] = idx[t]

(***************************************************************************)
(* SpecNew: New called with a shard count from -2 to MaxShards, and *)
(* Set, Get and Count on the table it returns.                             *)
(***************************************************************************)
MaxShards == 3

\* the shard counts New is called with
ShardCounts == (0 - 2)..MaxShards

NextNew ==
    \/ CallNew(ShardCounts)
    \/ NewReturns
    \/ NewSet(Keys, Ints) \/ NewGet(Keys) \/ NewCount

SpecNew == Init /\ [][NextNew]_vars

\* C15: New(shardCount) with shardCount <= 0 reports an error instead of
\* handing back a table: no call of New with such a count ever has a table
\* as its result.
C15_NewRejects ==
    (pure.fn = "New" /\ pure.shards <= 0) => pure.at # "made"

(***************************************************************************)
(* SpecAdd: callers running AddIfPresent of a scalar, Set of a slice,      *)
(* SetIfPresent with a scalar or a slice as the old value, and Get, on two *)
(* keys of one shard.                                                      *)
(***************************************************************************)
NextAdd ==
    \E t \in Threads :
        \/ CallAddIfPresent(t, Pair, Ints)
        \/ CallSet(t, {KA}, Sliced)
        \/ CallSetIfPresent(t, {KA}, {IntV(2)}, {IntV(1)} \cup Sliced)
        \/ CallGet(t, {KA})
        \/ Locking(t)
        \/ AddIfPresent(t) \/ Set(t) \/ SetIfPresent(t) \/ Get(t)

SpecAdd == Init /\ [][NextAdd]_vars

\* C16: a type violation in a single-key operation is reported as an error
\* result and never as a crash: no SetIfPresent on values without equality
\* and no AddIfPresent on a stored value that is no sequence ends in a panic.
C16_TypeErrorsReported ==
    \A t \in Threads :
        op[t].name \in {"SetIfPresent", "AddIfPresent"} => pc[t] # "panicked"

\* the shard is as the crashed call found it: the stored value is unchanged
C16_StateKept ==
    \A t \in Threads :
        pc[t] = "panicked" /\ ~pre[t].dist /\ pre[t].st = "present"
            => Stored(op[t].key) = <<pre[t].v, TRUE>>

KeysScanInstant ==
    \A s \in ShardIds :
        scan.mode = "Keys" /\ prod[s].pc = "range"
            => prod[s].all = DOMAIN items[s] /\ prod[s].left \subseteq prod[s].all

\* what a Keys() that returns has returned
KeysExact ==
    ret.r.name = "Keys" =>
        LET d == ret.r.val.d
        IN  /\ Cardinality(Range(d)) = Len(d)
            /\ Range(d) = UNION {prod[s].all : s \in ShardIds}
            /\ \A s \in ShardIds :
                  {k \in Range(d) : GetShard(k) = s} = prod[s].all
            /\ Range(d) \subseteq Keys
            /\ (snap.set \ Removed) \subseteq Range(d)
            /\ ~ret.pre.dist => Range(d) = snap.set

\* C18: Keys() always terminates, and what it returns is, for each shard,
\* exactly the keys the shard held when its goroutine scanned it under the
\* read lock: each key once, no key that is not a stored key, and every key
\* stored at the call that no Remove is called on; also when Set and Remove
\* change the size of the table after the Count() that sizes the channel.
C18_KeysScan ==
    /\ [](KeysScanInstant /\ KeysExact)
    /\ \A t \in Threads : (op[t].name = "Keys") ~> (pc[t] = "idle")

\* a Keys() that overlapped a Remove returns fewer keys than it counted
C18_Witness ==
    /\ ret.r.name = "Keys" /\ ret.pre.dist
    /\ Len(ret.r.val.d) < out.cap

\* a Keys() that counted no key returns one, handed over on the unbuffered ch
C18_Longer ==
    /\ ret.r.name = "Keys" /\ out.cap = 0 /\ Len(ret.r.val.d) > 0

(***************************************************************************)
(* SpecFnv: fnv32 called on any string of at most MaxLen of the bytes of   *)
(* "ABC".                                                                  *)
(***************************************************************************)
MaxLen == 3
Bytes == {65, 66, 67}
ABC == <<65, 66, 67>>

ByteStrings == UNION {[1..n -> Bytes] : n \in 0..MaxLen}

NextFnv == CallFnv32(ByteStrings) \/ Fnv32Loop \/ Fnv32Return

SpecFnv == Init /\ [][NextFnv]_vars

(***************************************************************************)
(* The reference hashes of hash/fnv, on four bytes <<b0, b1, b2, b3>>,     *)
(* least significant first: offset 0x811C9DC5, prime 0x01000193. FNV-1     *)
(* (fnv.New32) multiplies and then XORs the byte in, FNV-1a (fnv.New32a)   *)
(* XORs and then multiplies.                                               *)
(***************************************************************************)
RefOffset == <<197, 157, 28, 129>>

RefMul(x) ==
    LET c0 == x[1] * 147
        c1 == x[2] * 147 + x[1] + (c0 \div 256)
        c2 == x[3] * 147 + x[2] + (c1 \div 256)
        c3 == x[4] * 147 + x[3] + x[1] + (c2 \div 256)
    IN  <<c0 % 256, c1 % 256, c2 % 256, c3 % 256>>

RefBit(a, i) == (a \div (2 ^ i)) % 2

RefXor(x, b) ==
    <<(x[1] + b) - 2 * ((RefBit(x[1], 0) * RefBit(b, 0))
                        + 2 * (RefBit(x[1], 1) * RefBit(b, 1))
                        + 4 * (RefBit(x[1], 2) * RefBit(b, 2))
                        + 8 * (RefBit(x[1], 3) * RefBit(b, 3))
                        + 16 * (RefBit(x[1], 4) * RefBit(b, 4))
                        + 32 * (RefBit(x[1], 5) * RefBit(b, 5))
                        + 64 * (RefBit(x[1], 6) * RefBit(b, 6))
                        + 128 * (RefBit(x[1], 7) * RefBit(b, 7))),
      x[2], x[3], x[4]>>

RECURSIVE Fnv1(_)
Fnv1(key) ==
    IF key = <<>> THEN RefOffset
    ELSE RefXor(RefMul(Fnv1(SubSeq(key, 1, Len(key) - 1))), key[Len(key)])

RECURSIVE Fnv1a(_)
Fnv1a(key) ==
    IF key = <<>> THEN RefOffset
    ELSE RefMul(RefXor(Fnv1a(SubSeq(key, 1, Len(key) - 1)), key[Len(key)]))

\* the uint32 of two 16-bit limbs as four bytes
BytesOf(h) == <<h[2] % 256, h[2] \div 256, h[1] % 256, h[1] \div 256>>

\* the uint32 n < 2^31 as four bytes
BytesOfInt(n) ==
    <<n % 256, (n \div 256) % 256, (n \div 65536) % 256, n \div 16777216>>

\* FNV-1 of "ABC", as hash/fnv computes it
Fnv1OfABC == 1665970155

\* fnv32 starts from 2166136261 and multiplies, then XORs, byte by byte
Fnv32Steps ==
    pure.fn = "fnv32" =>
        /\ pure.i = 1 => BytesOf(pure.hash) = RefOffset
        /\ BytesOf(pure.hash) = Fnv1(SubSeq(pure.key, 1, pure.i - 1))
        /\ pure.at = "returned" =>
              /\ pure.hash = fnv32(pure.key)
              /\ BytesOf(pure.hash) = Fnv1(pure.key)

\* C19 as stated: fnv32 starts from 2166136261 and for each byte multiplies
\* by 16777619 modulo 2^32 and then XORs the byte; its result for "ABC" is
\* the standard FNV-1a 32-bit hash of "ABC".
C19_Fnv1aOfABC ==
    /\ Fnv32Steps
    /\ pure.fn = "fnv32" /\ pure.at = "returned" /\ pure.key = ABC
          => BytesOf(pure.hash) = Fnv1a(ABC)

\* C19, amended: fnv32 starts from 2166136261 and for each byte multiplies
\* by 16777619 modulo 2^32 and then XORs the byte; its result for "ABC" is
\* the standard FNV-1 32-bit hash of "ABC" (hash/fnv's New32, multiply then
\* XOR), which is not its FNV-1a hash.
C19_Fnv1OfABC ==
    /\ Fnv32Steps
    /\ pure.fn = "fnv32" /\ pure.at = "returned" /\ pure.key = ABC
          => /\ BytesOf(pure.hash) = BytesOfInt(Fnv1OfABC)
             /\ BytesOfInt(Fnv1OfABC) = Fnv1(ABC)
             /\ BytesOfInt(1552166763) = Fnv1a(ABC)
             /\ BytesOf(pure.hash) # Fnv1a(ABC)

\* fnv32("ABC") has returned
C19_Witness ==
    pure.fn = "fnv32" /\ pure.at = "returned" /\ pure.key = ABC

(***************************************************************************)
(* SpecLock: callers running MSet, Set, Upsert, SetIfAbsent, Get, Count,   *)
(* Has, Remove and Pop.                                                    *)
(***************************************************************************)
LockStep(t) ==
    \/ Locking(t)
    \/ MSet(t) \/ Set(t) \/ Upsert(t) \/ SetIfAbsent(t)
    \/ Get(t) \/ Count(t) \/ Has(t) \/ Remove(t) \/ Pop(t)

NextLock ==
    \E t \in Threads :
        \/ CallMSet(t, Filled)
        \/ CallSet(t, {KA}, {IntV(2)})
        \/ CallUpsert(t, {KC}, {IntV(1)})
        \/ CallSetIfAbsent(t, {KA}, {IntV(1)})
        \/ CallGet(t, {KA}) \/ CallCount(t) \/ CallHas(t, {KC})
        \/ CallRemove(t, {KA}) \/ CallPop(t, {KB})
        \/ LockStep(t)

SpecLock == Init /\ [][NextLock]_vars

\* the callers inside shard s: after Lock() and after RLock()
WritersIn(s) == {t \in Threads : pc[t] = "cs" /\ idx[t] = s}
ReadersIn(s) == {t \in Threads : pc[t] = "rcs" /\ idx[t] = s}

\* who is inside a shard holds its lock in the mode of its operation, and a
\* writer is inside alone
Exclusion ==
    \A s \in ShardIds :
        /\ Cardinality(WritersIn(s)) <= 1
        /\ WritersIn(s) # {} => ReadersIn(s) = {} /\ rw[s].w /\ rw[s].r = 0
        /\ rw[s].r = Cardinality(ReadersIn(s))

\* the operations whose code stores into or deletes from shard.items have a
\* caller inside in exclusive mode; no other caller's operation does
WritesInside ==
    \A t \in Threads :
        /\ pc[t] = "cs" => op[t].name \in Mutators
        /\ pc[t] = "rcs" => op[t].name \in {"Get", "Has", "Count"}

\* a step that changes the entries of shard s is a step of the caller that
\* is inside s in exclusive mode
WritesLocked ==
    \A s \in ShardIds :
        items'[s] # items[s] =>
            \E t \in WritersIn(s) :
                /\ rw[s].w /\ rw[s].r = 0
                /\ pc'[t] # "cs" \/ op'[t] # op[t]

\* a step in which an operation returns, or Count goes on to the next
\* shard, is a step of a caller that is inside the shard it read
ReadsLocked ==
    \A t \in Threads :
        pc[t] \notin {"idle", "lock", "drain", "rlock"} /\ pc'[t] # pc[t] =>
            \/ t \in WritersIn(idx[t]) /\ rw[idx[t]].w /\ rw[idx[t]].r = 0
            \/ t \in ReadersIn(idx[t]) /\ rw[idx[t]].r >= 1

\* C20: on every shard the lock discipline holds in every reachable state:
\* entries are read only by a caller that holds the shard's lock, shared or
\* exclusive, and written only by one that holds it exclusively; readers
\* may be inside together, a writer is inside with no reader and no other
\* writer.
C20_LockDiscipline ==
    /\ [](Exclusion /\ WritesInside)
    /\ [][WritesLocked /\ ReadsLocked]_vars

\* two readers are inside one shard at once, each holding its read lock
C20_Witness ==
    \E s \in ShardIds :
        /\ Cardinality(ReadersIn(s)) >= 2
        /\ rw[s].r = Cardinality(ReadersIn(s))

\* the index the hash of the key gives among the table's shards
HashIndex(k) == ModLimbs(fnv32(k), ShardCount)

\* every stored key is in the shard of its hash, hence in one shard only
Routed ==
    /\ \A s \in DOMAIN items : \A k \in DOMAIN items[s] : HashIndex(k) = s
    /\ \A k \in Keys : Cardinality({s \in DOMAIN items : k \in DOMAIN items[s]}) <= 1

\* a caller that is taking a lock or is inside for an operation on a key is
\* at the shard of that key
OwnShardOnly ==
    \A t \in Threads :
        pc[t] \in {"lock", "drain", "cs", "rlock", "rcs"} /\ op[t].name # "Count"
            => idx[t] = HashIndex(op[t].key)

\* a step changes no shard but the one of the key its caller is inside for
OtherShardsKept ==
    \A s \in ShardIds :
        items'[s] # items[s] =>
            \E t \in Threads : pc[t] = "cs" /\ HashIndex(op[t].key) = s

\* the table has the shards New made
ShardsFixed == DOMAIN items = 0..(ShardCount - 1) /\ DOMAIN rw = DOMAIN items

\* C21: in every reachable state every key stored in shard i has
\* fnv32(key) mod shardCount = i, so no key is in two shards; an operation on
\* a key works in the one shard of that key; and no operation changes the
\* shard count or the set of shards.
C21_KeysRouted ==
    /\ [](Routed /\ OwnShardOnly /\ ShardsFixed)
    /\ [][OtherShardsKept /\ DOMAIN items' = DOMAIN items]_vars

\* both shards hold a key, one of them two, and a caller is inside the shard
\* of its key
C21_Witness ==
    /\ \A s \in ShardIds : DOMAIN items[s] # {}
    /\ \E s \in ShardIds : Cardinality(DOMAIN items[s]) >= 2
    /\ \E t \in Threads : pc[t] \in {"cs", "rcs"} /\ op[t].name # "Count"
                          /\ op[t].key \in DOMAIN items[idx[t]]

\* the same on the table New returned for any shard count: the keys are in
\* the shard of their hash, and Shards and the shards stay what New made
RoutedNew ==
    pure.fn = "New" /\ pure.at # "called" /\ pure.shards >= 0 =>
        /\ pure.m.Shards = pure.shards
        /\ DOMAIN pure.m.HashMap = 0..(pure.shards - 1)
        /\ \A i \in DOMAIN pure.m.HashMap : \A k \in DOMAIN pure.m.HashMap[i] :
              ModLimbs(fnv32(k), pure.m.Shards) = i

(***************************************************************************)
(* SpecMSet: callers running MSet of two keys of one shard or of two       *)
(* shards, Get, Has and Count, and Remove as the other writer.             *)
(***************************************************************************)
Batches == {[k \in {KA, KC} |-> IntV(1)], [k \in {KA, KB} |-> IntV(2)]}

NextMSet ==
    \E t \in Threads :
        \/ CallMSet(t, Batches)
        \/ CallGet(t, Keys) \/ CallHas(t, {KA}) \/ CallCount(t)
        \/ CallRemove(t, {KA})
        \/ Locking(t)
        \/ MSet(t) \/ Get(t) \/ Has(t) \/ Count(t) \/ Remove(t)

SpecMSet == Init /\ [][NextMSet]_vars

\* the pairs of its map a running MSet has stored and has still to store
Applied(t) == DOMAIN op[t].data \ (DOMAIN todo[t] \cup {op[t].key})

\* an MSet that has returned with no other writer on its keys has stored
\* every pair
MSetStored ==
    ret.r.name = "MSet" /\ ~ret.pre.dist =>
        \A k \in DOMAIN ret.r.o.data : Stored(k) = <<ret.r.o.data[k], TRUE>>

\* between two pairs MSet holds no lock: with the first pair stored and the
\* next not yet, the caller is at Lock() of the next pair's shard
MSetBetweenPairs ==
    \A t \in Threads :
        op[t].name = "MSet" /\ pc[t] = "lock" =>
            /\ \A s \in ShardIds : rw[s].w => \E u \in Threads \ {t} :
                                        pc[u] \in {"drain", "cs"} /\ idx[u] = s
            /\ op[t].key \notin Applied(t)

\* a step of MSet stores one pair and releases the lock it took for it
MSetOnePair ==
    \A t \in Threads :
        pc[t] = "cs" /\ op[t].name = "MSet" /\ pc'[t] # "cs" =>
            /\ items' = [items EXCEPT ![idx[t]] = MapPut(@, op[t].key, op[t].val)]
            /\ ~rw'[idx[t]].w
            /\ pc'[t] = IF todo[t] = EmptyMap THEN "idle" ELSE "lock"

\* C22: MSet is not atomic as a whole: each pair is stored under its own
\* acquisition of the lock, and the lock is free between two pairs, also of
\* one shard, so that a reader gets in and sees one key of the map stored
\* and another not; an MSet that has returned with no other writer on its
\* keys has stored every pair.
C22_MSetNotAtomic ==
    /\ [](MSetStored /\ MSetBetweenPairs)
    /\ [][MSetOnePair]_vars

\* a Get returns (nil, false) for a key of the map of an MSet that is running
\* and has stored another key of the same shard already
C22_Witness ==
    /\ ret.r.name = "Get" /\ ~ret.r.ok
    /\ \E t \in Threads \ {ret.t} :
          /\ op[t].name = "MSet" /\ pc[t] # "idle"
          /\ ret.r.key \in DOMAIN op[t].data
          /\ \E k \in Applied(t) :
                /\ GetShard(k) = GetShard(ret.r.key)
                /\ Stored(k) = <<op[t].data[k], TRUE>>

\* a Count returns 1 while an MSet of two keys on the empty table is running
C22_CountsOne ==
    /\ ret.r.name = "Count" /\ ret.r.val = IntV(1)
    /\ \E t \in Threads : op[t].name = "MSet" /\ pc[t] # "idle" /\ calls = 2

\* the numbers of entries the table had at the instants of the Count() that
\* returns in this state
HadDuring == ret.pre.had \cup {Entries}

\* Count is inside one shard at a time, under that shard's read lock, and
\* holds no lock between two shards
CountVisits ==
    /\ \A s \in ShardIds : rw[s].r = Cardinality(ReadersIn(s))
                                     + (IF prod[s].pc = "range" THEN 1 ELSE 0)
    /\ \A t \in Threads : op[t].name = "Count" /\ pc[t] \in {"rlock", "rcs"} =>
          /\ idx[t] \in ShardIds
          /\ acc[t] <= Cardinality(Keys)
          /\ idx[t] = 0 => acc[t] = 0

\* what Count returns when nothing stores or deletes during the call, and
\* what it takes for it to return a number the table never had
CountReturns ==
    ret.r.name = "Count" =>
        /\ ~ret.pre.dist => ret.r.val = IntV(Entries) /\ HadDuring = {Entries}
        /\ ret.r.val.d[1] \notin HadDuring => Cardinality(HadDuring) >= 2

\* a step of Count leaves the shard it is in, having added the size the
\* shard has in that step; the shards are visited in order, and the sum is
\* returned after the last
CountStep ==
    \A t \in Threads :
        InRcs(t, "Count") /\ pc'[t] # "rcs" =>
            /\ rw[idx[t]].r >= 1 /\ rw'[idx[t]].r = rw[idx[t]].r - 1
            /\ IF idx[t] + 1 < ShardCount
               THEN /\ acc'[t] = acc[t] + Cardinality(DOMAIN items[idx[t]])
                    /\ idx'[t] = idx[t] + 1 /\ pc'[t] = "rlock"
               ELSE /\ ret'.r.name = "Count" /\ ret'.t = t
                    /\ ret'.r.val = IntV(acc[t] + Cardinality(DOMAIN items[idx[t]]))

\* C23: Count() visits the shards one after another, each under its own read
\* lock, and returns the sum of the sizes the shards had when they were
\* visited; this is no snapshot of the table: with stores and deletes during
\* the call it returns a total the table had at no instant of the call.
C23_CountTorn ==
    /\ [](CountVisits /\ CountReturns)
    /\ [][CountStep]_vars

\* a Count() returns a number of entries the table had at no instant between
\* its call and its return
C23_Witness ==
    /\ ret.r.name = "Count" /\ ret.pre.dist
    /\ ret.r.val.d[1] \notin HadDuring

(***************************************************************************)
(* SpecPanic: callers running Upsert and UpdateCb with the appending       *)
(* callback, AddIfPresent, SetIfPresent with a slice as the old value, Set *)
(* of a scalar or a slice, and Get, on one key.                            *)
(***************************************************************************)
NextPanic ==
    \E t \in Threads :
        \/ CallUpsert(t, {KA}, {IntV(2)})
        \/ CallUpdateCb(t, {KA}, {IntV(2)})
        \/ CallAddIfPresent(t, {KA}, {IntV(2)})
        \/ CallSetIfPresent(t, {KA}, {IntV(2)}, Sliced)
        \/ CallSet(t, {KA}, {IntV(1)} \cup Sliced)
        \/ CallGet(t, {KA})
        \/ Locking(t)
        \/ Upsert(t) \/ UpdateCb(t) \/ AddIfPresent(t) \/ SetIfPresent(t)
        \/ Set(t) \/ Get(t)

SpecPanic == Init /\ [][NextPanic]_vars

\* C24: every single-key operation releases its shard's lock on every way
\* out of it, also when the callback of Upsert/UpdateCb panics and when
\* AddIfPresent or SetIfPresent panics on the stored value: a caller whose
\* call has failed holds no lock, so no shard stays locked for the others.
C24_LockReleased ==
    \A t \in Threads :
        pc[t] = "panicked" => ~rw[idx[t]].w /\ rw[idx[t]].r = 0

\* a caller waits for a lock that a panicked caller holds
C24_Stuck ==
    \E t, u \in Threads :
        /\ pc[t] = "panicked" /\ pc[u] \in {"lock", "rlock"}
        /\ idx[u] = idx[t] /\ rw[idx[t]].w

====
